---- MODULE Spec2Model ----
(***************************************************************************)
(* Verification model of the ouinet DHT node, signed-HTTP verifying reader *)
(* and Bep5 HTTP cache client.  Each component has its own variables and   *)
(* its own specification; a component's specification leaves the other     *)
(* components' variables unchanged.                                        *)
(***************************************************************************)
EXTENDS Integers, Naturals, Sequences, FiniteSets, TLC

VARIABLES
    \* ---- DhtNode::handle_query, "put" of a mutable item (bittorrent/dht.cpp)
    dataStore,      \* _data_store: key -> stored MutableDataItem or NoItem
    lastPut,        \* the query handled last, if a put: the put, the item stored
                    \* before it, the reply
    \* ---- DhtNode request/response correlation (bittorrent/dht.cpp)
    nextTid,        \* _next_transaction_id
    activeRequests, \* _active_requests: transaction -> destination
    query,          \* locals of each send_query_await_reply coroutine
    delivered,      \* per transaction: reply callbacks that took effect
    accepted,       \* per transaction: the reply whose callback took effect
    duplicate,      \* the transaction whose callback has just ignored a reply, or 0
    \* ---- VerifyingReader (cache/http_sign.cpp)
    vr,             \* VerifyingReader::Impl and the position of the inbound stream
    handed,         \* the chunk bodies async_read_part has returned to the caller
    lastBlock,      \* the last data block process_part(ChunkHdr) took from qbuf
    lastTrailer,    \* the trailer process_part(Trailer) got, and the head's fields before it
    \* ---- SigningReader and a VerifyingReader reading its output (cache/http_sign.cpp)
    sr,             \* SigningReader::Impl and the position in the origin's response
    srOut,          \* the parts SigningReader::async_read_part has returned
    rt,             \* VerifyingReader::Impl of the reader fed with srOut
    rtPos,          \* how many parts of srOut that reader has read
    rtHead,         \* VerifyingReader::Impl::head of that reader
    rtHanded,       \* the chunk bodies that reader has returned
    \* ---- local response store (cache/http_store.h)
    stored,         \* the `head`, `body` and `sigs` files of the entry
    reader,         \* the reader opened over the entry
    loaded,         \* the parts that reader has returned
    \* ---- DhtNode::handle_query for ping, find_node and get
    handled,        \* the query handled last, if one of these: the query, the item
                    \* then stored under its target, the datagram sent
    \* ---- DhtNode::tracker_announce, data_put_immutable, data_put_mutable
    wr,             \* the locals of one high-level write operation
    \* ---- MainlineDht fan-out operations (bittorrent/dht.cpp)
    fan,            \* the locals of one fan-out operation and its child coroutines
    \* ---- Bep5 cache client: load_from_connection, atomic_file (util/file_io.cpp)
    final,          \* the file at path_from_key(key), or NoEntry
    fetch,          \* per fetch: the coroutine writing the response and its temporary file
    served,         \* what Client::serve last found at the final path
    \* ---- DhtNode::handle_query for announce_peer and the put of an immutable item
    routing,        \* the distances to the target of the contacts in _routing_table
    swarm,          \* _tracker: the peers recorded for the info_hash
    immutables,     \* _data_store: the immutable values stored
    lastWrite,      \* the query handled last: the query, the peers or values before it, the reply
    \* ---- Stat and the timeout of DhtNode::send_query_await_reply
    window,         \* Stat::_accum_set of one query type: the reply times in its rolling window
    oq,             \* one send_query_await_reply: its timer, the watchdog, how long it waited
    \* ---- DhtNode::new_transaction_string
    txCounter,      \* _next_transaction_id
    txString,       \* the string new_transaction_string returned last
    txLast,         \* the counter value used last
    \* ---- DhtNode::data_get_mutable
    gm,             \* the locals of one data_get_mutable and what its replies held
    \* ---- MultiPeerReader (cache/multi_peer_reader.h)
    mp,             \* _peers (good ones, those asked for the block), _block_id, _state
    mpOut,          \* the blocks handed to the caller and the peers they came from
    mpBad,          \* the peers that have returned bytes which did not verify
    \* ---- DhtNode::bootstrap
    boot,           \* the locals of bootstrap, _routing_table, _bootstrap_endpoints, _ready
    \* ---- DhtNode::send_write_query
    wq,             \* the locals of one send_write_query and how its attempts ended
    \* ---- MainlineDht::tracker_announce
    ta,             \* the locals of one tracker_announce and its child coroutines
    \* ---- Bep5AnnouncerImpl (bittorrent/bep5_announcer.cpp)
    an,             \* type, cancel, go_again, dht_w and the position of the loop coroutine
    lookup,      \* the DhtLookup of one infohash and the steady clock
    getters,     \* the calls of DhtLookup::get
    hl,          \* HashList::load: its position, parser and results
    inbound,     \* the last query handle_query ran on, and how it went
    mg           \* http_injection_merge: the head, the trailer and the merged head

putVars == <<dataStore, lastPut>>
reqVars == <<nextTid, activeRequests, query, delivered, accepted, duplicate>>
vrVars == <<vr, handed, lastBlock, lastTrailer>>
wrVars == <<wr>>
fanVars == <<fan>>
fileVars == <<final, fetch, served>>
srVars == <<sr, srOut, rt, rtPos, rtHead, rtHanded>>
storeVars == <<stored, reader, loaded>>
queryVars == <<handled>>
trackerVars == <<routing, swarm, immutables, lastWrite>>
timeoutVars == <<window, oq>>
transactionVars == <<txCounter, txString, txLast>>
getVars == <<gm>>
multiVars == <<mp, mpOut, mpBad>>
bootVars == <<boot>>
writeQueryVars == <<wq>>
announceVars == <<ta>>
announcerVars == <<an>>
lookupVars == <<lookup, getters>>
loadVars == <<hl>>
inboundVars == <<inbound>>
mergeVars == <<mg>>

vars == <<putVars, reqVars, vrVars, wrVars, fanVars, fileVars, srVars, storeVars, queryVars, trackerVars, timeoutVars, transactionVars, getVars, multiVars, bootVars, writeQueryVars, announceVars, announcerVars, lookupVars, loadVars, inboundVars, mergeVars>>

\* What each component's actions leave alone.
notInboundVars == <<reqVars, vrVars, wrVars, fanVars, fileVars, srVars, storeVars, trackerVars, timeoutVars, transactionVars, getVars, multiVars, bootVars, writeQueryVars, announceVars, announcerVars, lookupVars, loadVars, inboundVars, mergeVars>>
notReqVars == <<putVars, vrVars, wrVars, fanVars, fileVars, srVars, storeVars, queryVars, trackerVars, timeoutVars, transactionVars, getVars, multiVars, bootVars, writeQueryVars, announceVars, announcerVars, lookupVars, loadVars, inboundVars, mergeVars>>
notVrVars == <<putVars, reqVars, wrVars, fanVars, fileVars, srVars, storeVars, queryVars, trackerVars, timeoutVars, transactionVars, getVars, multiVars, bootVars, writeQueryVars, announceVars, announcerVars, lookupVars, loadVars, inboundVars, mergeVars>>
notWrVars == <<putVars, reqVars, vrVars, fanVars, fileVars, srVars, storeVars, queryVars, trackerVars, timeoutVars, transactionVars, getVars, multiVars, bootVars, writeQueryVars, announceVars, announcerVars, lookupVars, loadVars, inboundVars, mergeVars>>
notFanVars == <<putVars, reqVars, vrVars, wrVars, fileVars, srVars, storeVars, queryVars, trackerVars, timeoutVars, transactionVars, getVars, multiVars, bootVars, writeQueryVars, announceVars, announcerVars, lookupVars, loadVars, inboundVars, mergeVars>>
notFileVars == <<putVars, reqVars, vrVars, wrVars, fanVars, srVars, storeVars, queryVars, trackerVars, timeoutVars, transactionVars, getVars, multiVars, bootVars, writeQueryVars, announceVars, announcerVars, lookupVars, loadVars, inboundVars, mergeVars>>
notSrVars == <<putVars, reqVars, vrVars, wrVars, fanVars, fileVars, storeVars, queryVars, trackerVars, timeoutVars, transactionVars, getVars, multiVars, bootVars, writeQueryVars, announceVars, announcerVars, lookupVars, loadVars, inboundVars, mergeVars>>
notStoreVars == <<putVars, reqVars, vrVars, wrVars, fanVars, fileVars, srVars, queryVars, trackerVars, timeoutVars, transactionVars, getVars, multiVars, bootVars, writeQueryVars, announceVars, announcerVars, lookupVars, loadVars, inboundVars, mergeVars>>
notTrackerVars == <<putVars, reqVars, vrVars, wrVars, fanVars, fileVars, srVars, storeVars, queryVars, timeoutVars, transactionVars, getVars, multiVars, bootVars, writeQueryVars, announceVars, announcerVars, lookupVars, loadVars, inboundVars, mergeVars>>
notTimeoutVars == <<putVars, reqVars, vrVars, wrVars, fanVars, fileVars, srVars, storeVars, queryVars, trackerVars, transactionVars, getVars, multiVars, bootVars, writeQueryVars, announceVars, announcerVars, lookupVars, loadVars, inboundVars, mergeVars>>
notTransactionVars == <<putVars, reqVars, vrVars, wrVars, fanVars, fileVars, srVars, storeVars, queryVars, trackerVars, timeoutVars, getVars, multiVars, bootVars, writeQueryVars, announceVars, announcerVars, lookupVars, loadVars, inboundVars, mergeVars>>
notGetVars == <<putVars, reqVars, vrVars, wrVars, fanVars, fileVars, srVars, storeVars, queryVars, trackerVars, timeoutVars, transactionVars, multiVars, bootVars, writeQueryVars, announceVars, announcerVars, lookupVars, loadVars, inboundVars, mergeVars>>
notMultiVars == <<putVars, reqVars, vrVars, wrVars, fanVars, fileVars, srVars, storeVars, queryVars, trackerVars, timeoutVars, transactionVars, getVars, bootVars, writeQueryVars, announceVars, announcerVars, lookupVars, loadVars, inboundVars, mergeVars>>
notBootVars == <<putVars, reqVars, vrVars, wrVars, fanVars, fileVars, srVars, storeVars, queryVars, trackerVars, timeoutVars, transactionVars, getVars, multiVars, writeQueryVars, announceVars, announcerVars, lookupVars, loadVars, inboundVars, mergeVars>>
notWriteQueryVars == <<putVars, reqVars, vrVars, wrVars, fanVars, fileVars, srVars, storeVars, queryVars, trackerVars, timeoutVars, transactionVars, getVars, multiVars, bootVars, announceVars, announcerVars, lookupVars, loadVars, inboundVars, mergeVars>>
notAnnounceVars == <<putVars, reqVars, vrVars, wrVars, fanVars, fileVars, srVars, storeVars, queryVars, trackerVars, timeoutVars, transactionVars, getVars, multiVars, bootVars, writeQueryVars, announcerVars, lookupVars, loadVars, inboundVars, mergeVars>>
notAnnouncerVars == <<putVars, reqVars, vrVars, wrVars, fanVars, fileVars, srVars, storeVars, queryVars, trackerVars, timeoutVars, transactionVars, getVars, multiVars, bootVars, writeQueryVars, announceVars, lookupVars, loadVars, inboundVars, mergeVars>>
notLookupVars == <<putVars, reqVars, vrVars, wrVars, fanVars, fileVars, srVars, storeVars, queryVars, trackerVars, timeoutVars, transactionVars, getVars, multiVars, bootVars, writeQueryVars, announceVars, announcerVars, loadVars, inboundVars, mergeVars>>
notLoadVars == <<putVars, reqVars, vrVars, wrVars, fanVars, fileVars, srVars, storeVars, queryVars, trackerVars, timeoutVars, transactionVars, getVars, multiVars, bootVars, writeQueryVars, announceVars, announcerVars, lookupVars, inboundVars, mergeVars>>
notEarlyVars == <<putVars, reqVars, vrVars, wrVars, fanVars, fileVars, srVars, storeVars, queryVars, trackerVars, timeoutVars, transactionVars, getVars, multiVars, bootVars, writeQueryVars, announceVars, announcerVars, lookupVars, loadVars, mergeVars>>
notMergeVars == <<putVars, reqVars, vrVars, wrVars, fanVars, fileVars, srVars, storeVars, queryVars, trackerVars, timeoutVars, transactionVars, getVars, multiVars, bootVars, writeQueryVars, announceVars, announcerVars, lookupVars, loadVars, inboundVars>>

(***************************************************************************)
(* Inbound mutable put                                                     *)
(***************************************************************************)

\* Largest sequence number of the model.
MaxSeq == 2

\* BEP-5/BEP-44 error codes sent by handle_query.
ErrNotResponsible == 201
ErrProtocol == 203
ErrBadSignature == 206
ErrCasMismatch == 301
ErrSeqRegress == 302
\* send_reply({}): no error.
ReplyOk == 0

\* Targets SHA-1(public key || salt) of two mutable items.
Keys == {"pkA.salt", "pkB.salt"}
\* Bencoded values.
Values == {"va", "vb"}
Seqs == 0..MaxSeq

\* boost::none for the optional arguments "cas" and for a missing item.
NoCas == -1
NoItem == [seq |-> -1, v |-> "none"]

Items == [seq : Seqs, v : Values]

\* The arguments of one inbound put and the outcome of the checks that depend
\* on state outside this model (token secret, routing table, Ed25519).
PutQueries ==
    [key : Keys, seq : Seqs, v : Values, cas : Seqs \cup {NoCas},
     tokenOk : BOOLEAN, responsible : BOOLEAN, sigOk : BOOLEAN]

\* _data_store->get_mutable(target)
get_mutable(store, key) == store[key]

\* _data_store->put_mutable(item)
put_mutable(store, key, item) == [store EXCEPT ![key] = item]

SeqRegress_NoCheck(existing, q) == FALSE

\* sequence_number < existing_item->sequence_number
SeqRegress(existing, q) == q.seq < existing.seq

SeqNotUpdated_NoCheck(existing, q) == FALSE

\* sequence_number == existing_item->sequence_number
\*   && bencoding_encode(value) != bencoding_encode(existing_item->value)
SeqNotUpdated(existing, q) == q.seq = existing.seq /\ q.v # existing.v

CasMismatch_NoCheck(existing, q) == FALSE

\* compare_and_swap_ && *compare_and_swap_ != existing_item->sequence_number
CasMismatch(existing, q) == q.cas # NoCas /\ q.cas # existing.seq

\* The reply handle_query sends to a mutable put: the checks in the order of
\* the code, the first failing one decides.
PutReply(existing, q) ==
    IF ~q.tokenOk THEN ErrProtocol
    ELSE IF ~q.responsible THEN ErrNotResponsible
    ELSE IF ~q.sigOk THEN ErrBadSignature
    ELSE IF existing # NoItem /\ SeqRegress(existing, q) THEN ErrSeqRegress
    ELSE IF existing # NoItem /\ SeqNotUpdated(existing, q) THEN ErrSeqRegress
    ELSE IF existing # NoItem /\ CasMismatch(existing, q) THEN ErrCasMismatch
    ELSE ReplyOk

NoPut ==
    [key |-> "none", seq |-> -1, v |-> "none", cas |-> NoCas, valid |-> FALSE,
     before |-> NoItem, reply |-> ReplyOk]

\* No inbound ping, find_node or get was the last query handled.
NoHandled ==
    [query |-> [sender |-> "none", t |-> "none", q |-> "none", target |-> "none",
                seq |-> -1],
     item |-> NoItem, datagram |-> [y |-> "none", t |-> "none"]]

InitPut ==
    /\ dataStore = [k \in Keys |-> NoItem]
    /\ lastPut = NoPut

\* handle_query(sender, query) with query["q"] = "put" and a string "k".
HandlePut(q) ==
    LET existing == get_mutable(dataStore, q.key)
        reply == PutReply(existing, q)
    IN  /\ dataStore' = IF reply = ReplyOk
                        THEN put_mutable(dataStore, q.key, [seq |-> q.seq, v |-> q.v])
                        ELSE dataStore
        /\ lastPut' = IF q.tokenOk /\ q.responsible /\ q.sigOk
                       THEN [key |-> q.key, seq |-> q.seq, v |-> q.v,
                             cas |-> q.cas, valid |-> TRUE,
                             before |-> existing, reply |-> reply]
                       ELSE [NoPut EXCEPT !.reply = reply]
        /\ handled' = NoHandled
        /\ UNCHANGED notInboundVars

ReceivePut == \E q \in PutQueries : HandlePut(q)

NextPut == ReceivePut


(***************************************************************************)
(* Request/response correlation: send_query_await_reply and receive_loop   *)
(***************************************************************************)

\* Number of outbound queries of the model.
MaxQueries == 2

\* _next_transaction_id = 1 in DhtNode::start.
FirstTid == 1

Tids == FirstTid..MaxQueries
\* Transaction ids a datagram can carry: those of the queries and one no
\* query ever had.
WireTids == 0..MaxQueries

Endpoints == {"epA", "epB"}
NoEndpoint == "none"
Payloads == {"p1", "p2"}
NoPayload == "none"
MsgTypes == {"q", "r", "e"}

\* What is recorded of a reply that took effect.
NoReply == [t |-> -1, sender |-> NoEndpoint, payload |-> NoPayload]
Packets == [t : WireTids, sender : Endpoints, y : MsgTypes, payload : Payloads]

\* A coroutine that has not started: no transaction yet.
IdleQuery ==
    [pc |-> "idle", dst |-> NoEndpoint, first_error_code |-> "unset",
     response |-> NoPayload, timer |-> "none"]

InitReq ==
    /\ nextTid = FirstTid
    /\ activeRequests = [t \in Tids |-> NoEndpoint]
    /\ query = [t \in Tids |-> IdleQuery]
    /\ delivered = [t \in Tids |-> 0]
    /\ accepted = [t \in Tids |-> NoReply]
    /\ duplicate = 0

\* timeout_timer.cancel(): the pending wait completes (operation_aborted), its
\* handler is posted; no effect once the handler has run.
TimerCancel(timer) == IF timer = "armed" THEN "cancelled" ELSE timer

\* send_query_await_reply up to reply_and_timeout_condition.wait: take a
\* transaction id, register the callback, send the query.
SendQuery(dst, sendOk) ==
    /\ nextTid <= MaxQueries
    /\ nextTid' = nextTid + 1
    /\ activeRequests' = [activeRequests EXCEPT ![nextTid] = dst]
    /\ query' = [query EXCEPT ![nextTid] =
                    [pc |-> "waiting",
                     dst |-> dst,
                     first_error_code |-> IF sendOk THEN "unset" ELSE "send_error",
                     response |-> NoPayload,
                     timer |-> IF sendOk THEN "armed" ELSE "cancelled"]]
    /\ duplicate' = 0
    /\ UNCHANGED <<delivered, accepted>>
    /\ UNCHANGED notReqVars

CallbackRuns_NoGuard(q) == TRUE

\* The reply callback's guard: if (first_error_code) return;
CallbackRuns(q) == q.first_error_code = "unset"

RequestMatches_AnySender(active, m) ==
    /\ m.t \in Tids
    /\ active[m.t] # NoEndpoint

\* it != _active_requests.end() && it->second.destination == sender
RequestMatches(active, m) ==
    /\ m.t \in Tids
    /\ active[m.t] # NoEndpoint
    /\ active[m.t] = m.sender

\* The reply callback registered in _active_requests.
ReplyCallback(q, m) ==
    IF CallbackRuns(q)
    THEN [q EXCEPT !.first_error_code = "success",
                   !.response = m.payload,
                   !.timer = TimerCancel(q.timer)]
    ELSE q

\* One turn of receive_loop: a datagram with "y" and "t" arrives and is
\* dispatched.  A query ("q") goes to handle_query, which does not touch the
\* pending requests.
Receive(m) ==
    /\ IF m.y \in {"r", "e"} /\ RequestMatches(activeRequests, m)
       THEN /\ query' = [query EXCEPT ![m.t] = ReplyCallback(query[m.t], m)]
            /\ IF query'[m.t] # query[m.t]
               THEN /\ delivered' = [delivered EXCEPT ![m.t] = @ + 1]
                    /\ accepted' = [accepted EXCEPT ![m.t] =
                                       [t |-> m.t, sender |-> m.sender,
                                        payload |-> m.payload]]
                    /\ duplicate' = 0
               ELSE /\ duplicate' = m.t
                    /\ UNCHANGED <<delivered, accepted>>
       ELSE /\ duplicate' = 0
            /\ UNCHANGED <<query, delivered, accepted>>
    /\ UNCHANGED <<nextTid, activeRequests>>
    /\ UNCHANGED notReqVars

\* The handler of timeout_timer.async_wait runs: on expiry or after cancel().
TimerHandler(t) ==
    /\ query[t].pc = "waiting"
    /\ query[t].timer \in {"armed", "cancelled"}
    /\ query' = [query EXCEPT ![t] =
                    [@ EXCEPT !.timer = "executed",
                              !.first_error_code =
                                  IF @ = "unset" THEN "timed_out" ELSE @,
                              !.pc = "notified"]]
    /\ duplicate' = 0
    /\ UNCHANGED <<nextTid, activeRequests, delivered, accepted>>
    /\ UNCHANGED notReqVars

\* The slot connected to cancel_signal (or _cancel) runs.
CancelQuery(t) ==
    /\ query[t].pc \in {"waiting", "notified"}
    /\ query[t].first_error_code # "operation_aborted"
    /\ query' = [query EXCEPT ![t] =
                    [@ EXCEPT !.first_error_code = "operation_aborted",
                              !.timer = TimerCancel(@)]]
    /\ duplicate' = 0
    /\ UNCHANGED <<nextTid, activeRequests, delivered, accepted>>
    /\ UNCHANGED notReqVars

\* The coroutine resumes after the wait: _active_requests.erase(transaction)
\* and return of *first_error_code with the response.
Resume(t) ==
    /\ query[t].pc = "notified"
    /\ activeRequests' = [activeRequests EXCEPT ![t] = NoEndpoint]
    /\ query' = [query EXCEPT ![t] = [@ EXCEPT !.pc = "done"]]
    /\ duplicate' = 0
    /\ UNCHANGED <<nextTid, delivered, accepted>>
    /\ UNCHANGED notReqVars

StartQuery == \E dst \in Endpoints, sendOk \in BOOLEAN : SendQuery(dst, sendOk)
ReceiveDatagram == \E m \in Packets : Receive(m)
TimerFires == \E t \in Tids : TimerHandler(t)
CancelFires == \E t \in Tids : CancelQuery(t)
QueryReturns == \E t \in Tids : Resume(t)

NextReq ==
    \/ StartQuery
    \/ ReceiveDatagram
    \/ TimerFires
    \/ CancelFires
    \/ QueryReturns

(***************************************************************************)
(* VerifyingReader: verification of an inbound signed response             *)
(***************************************************************************)

\* Size of a signed data block (bs_params->size, from X-Ouinet-BSigs).
BlockSize == 2

\* Length of the body the injector signed.
DataSize == 3

\* Values of a body byte.
Bytes == {"x", "y"}

\* The body the injector signed, its data blocks and their chain hashes.  A
\* hash is modelled by what it was computed from, so that two hashes are equal
\* only if their inputs are: HASH[i] = SHA2-512(HASH[i-1] BLOCK[i]) is the
\* sequence of blocks 0..i.
OrigBody == [i \in 1..DataSize |-> IF i % 2 = 1 THEN "x" ELSE "y"]
NumBlocks == (DataSize + BlockSize - 1) \div BlockSize
OrigBlock(j) ==
    SubSeq(OrigBody, j * BlockSize + 1,
           IF (j + 1) * BlockSize < DataSize THEN (j + 1) * BlockSize ELSE DataSize)
OrigChain(j) == [i \in 1..(j + 1) |-> OrigBlock(i - 1)]

\* An empty hash state or an absent digest; a chain hash nobody signed.
NoChain == <<>>
WrongChain == << <<"z">> >>

\* The injector's key (Impl::pk, bs_params->pk) and the injection identifier
\* of the verified head (injection_id).
InjectorKey == "injector"
InjectionId == "inj1"

\* block_sig_str(injection_id, block_offset, block_digest): the signed string.
block_sig_str(id, offset, chain) == [id |-> id, offset |-> offset, chain |-> chain]

\* An Ed25519 signature is modelled by its key and the string it signs.
NoSig == [key |-> "none", id |-> "none", offset |-> -1, chain |-> NoChain]
Sign(key, str) == [key |-> key, id |-> str.id, offset |-> str.offset, chain |-> str.chain]

\* util::Ed25519PublicKey::verify.
verify(pk, str, sig) == sig.key = pk /\ Sign(pk, str) = sig

\* The block signatures the injector produced for this injection.
OrigSig(j) == Sign(InjectorKey, block_sig_str(InjectionId, j * BlockSize, OrigChain(j)))

\* What a peer can put in the ouisig extension of a chunk header: nothing, a
\* signature of the injection (of any block), a signature under another key
\* of exactly the string the reader computes, or a signature the injector
\* made for another injection of the same data.
SigKinds ==
    {[kind |-> k, block |-> -1] : k \in {"none", "forged", "other_injection"}}
        \cup {[kind |-> "orig", block |-> j] : j \in 0..(NumBlocks - 1)}
block_sig_from_exts(ext, str) ==
    IF ext.kind = "none" THEN NoSig
    ELSE IF ext.kind = "forged" THEN Sign("attacker", str)
    ELSE IF ext.kind = "other_injection" THEN Sign(InjectorKey, [str EXCEPT !.id = "inj2"])
    ELSE OrigSig(ext.block)

\* What a peer can put in the ouihash extension: nothing, the chain hash of a
\* block of the injection, or another hash.
HashExts == {NoChain, WrongChain} \cup {OrigChain(j) : j \in 0..(NumBlocks - 1)}

\* Absent optional<size_t> (range_begin, range_end) and absent Data-Size.
NoRange == -1
NoSize == -1

\* The Digest header: algorithm and value; http_digest(body_hash) of a body.
NoDigest == [alg |-> "none", val |-> <<>>]
http_digest(body) == [alg |-> "SHA-256", val |-> body]

\* The trailer part queued in pending_parts.
TrailerPart == <<"trailer">>

\* Impl after construction, before the head is read.
InitReader ==
    [pc |-> "head", ec |-> "ok", range_begin |-> NoRange, range_end |-> NoRange,
     block_offset |-> 0, qbuf |-> <<>>, block_hash |-> NoChain,
     prev_block_sig |-> NoSig, block_dig |-> NoChain, prev_block_dig |-> NoChain,
     body |-> <<>>, data_size |-> NoSize, digest |-> NoDigest, chunk_left |-> 0,
     pending_parts |-> <<>>, is_done |-> FALSE]

NoBlock ==
    [checked |-> FALSE, data |-> <<>>, str |-> block_sig_str("none", -1, NoChain),
     sig |-> NoSig, handed_before |-> 0]

NoTrailer ==
    [received |-> FALSE, data_size |-> NoSize, digest |-> NoDigest, sig |-> "none",
     head_data_size |-> NoSize, head_digest |-> NoDigest]

InitVr ==
    /\ vr = InitReader
    /\ handed = <<>>
    /\ lastBlock = NoBlock
    /\ lastTrailer = NoTrailer

\* or_throw(y, ec, boost::none): the call fails, nothing is returned.
Fail(v, ec) == [v EXCEPT !.ec = ec]

\* Heads a peer can send: whether some signature verifies under pk, whether
\* the response is chunked, whether X-Ouinet-BSigs is present and well formed
\* with a size within bounds, whether the injection identifier is present,
\* whether the head carries the final signature (covering X-Ouinet-Data-Size
\* and Digest), and the Content-Range of a 206 response (first, last).
Ranges == {<<NoRange, NoRange>>} \cup {<<f, l>> \in (0..DataSize) \X (0..DataSize) : f <= l}
Heads == [signed : BOOLEAN, chunked : BOOLEAN, bsigs : BOOLEAN, injection : BOOLEAN,
          final : BOOLEAN, range : Ranges]

\* HttpByteRange::matches_length(dszh): the range lies within the signed
\* length of the head, which has to be present.
matches_length(range, has_length) == has_length /\ range[2] < DataSize

\* process_part(Head).  Headers not covered by a verifying signature are
\* dropped by http_injection_verify, so Data-Size and Digest are those the
\* injector signed when present.
ProcessHead(v, h) ==
    IF ~h.signed \/ ~h.chunked \/ ~h.bsigs \/ ~h.injection THEN Fail(v, "no_message")
    ELSE IF h.range[1] # NoRange /\ ~matches_length(h.range, h.final) THEN Fail(v, "no_message")
    ELSE [v EXCEPT !.pc = "chunk_hdr",
                   !.data_size = IF h.final THEN DataSize ELSE NoSize,
                   !.digest = IF h.final THEN http_digest(OrigBody) ELSE NoDigest,
                   !.range_begin = h.range[1],
                   !.block_offset = IF h.range[1] # NoRange THEN h.range[1] ELSE 0,
                   !.range_end = IF h.range[1] # NoRange THEN h.range[2] + 1 ELSE NoRange]

\* quantized_buffer::get(): a whole block if one is buffered, else nothing;
\* get_rest(): whatever is buffered.
qbuf_get(qbuf) == IF Len(qbuf) = BlockSize THEN qbuf ELSE <<>>
qbuf_get_rest(qbuf) == qbuf

\* process_part(ChunkHdr): the data block to verify at this chunk header.
BlockBuf(v, size) ==
    IF qbuf_get(v.qbuf) # <<>> THEN qbuf_get(v.qbuf)
    ELSE IF size = 0 THEN qbuf_get_rest(v.qbuf) ELSE <<>>

\* The first block of a range that does not start at 0 needs the chain hash
\* of the preceding blocks from the extensions.
AtRangeStart(v) ==
    v.range_begin # NoRange /\ v.block_offset > 0 /\ v.block_offset = v.range_begin

\* block_hash.update(block_buf); block_hash.close(), after the optional
\* block_hash.update(*prev_block_dig).
BlockDigest(v, size, hash) ==
    Append(IF AtRangeStart(v) THEN hash ELSE v.block_hash, BlockBuf(v, size))

BlockSigStr(v, size, hash) ==
    block_sig_str(InjectionId, v.block_offset, BlockDigest(v, size, hash))

\* if (!block_sig): the chunk header carries no signature.
BlockSigMissing(sig) == sig = NoSig

\* if (!bs_params->pk.verify(bsig_str, *block_sig)).
BlockSigRejected_NoCheck(str, sig) == FALSE
BlockSigRejected(str, sig) == ~verify(InjectorKey, str, sig)

\* process_part(ChunkHdr) for a chunk header whose ouisig extension decodes to
\* block_sig and whose ouihash extension decodes to hash.
VerifyChunkHdr(v, size, block_sig, hash) ==
    LET next == [v EXCEPT !.pc = IF size = 0 THEN "trailer" ELSE "chunk_body",
                          !.chunk_left = size]
        block_buf == BlockBuf(v, size)
        str == BlockSigStr(v, size, hash)
        taken == [next EXCEPT !.qbuf = <<>>]
        verified == [taken EXCEPT !.prev_block_sig = block_sig,
                                  !.block_hash = str.chain,
                                  !.block_offset = @ + Len(block_buf),
                                  !.prev_block_dig = v.block_dig,
                                  !.block_dig = str.chain]
    IN  IF size > BlockSize THEN Fail(v, "bad_message")
        ELSE IF qbuf_get(v.qbuf) = <<>> /\ size # 0 THEN next
        ELSE IF BlockSigMissing(block_sig) THEN Fail(taken, "bad_message")
        ELSE IF AtRangeStart(v) /\ hash = NoChain THEN Fail(taken, "bad_message")
        ELSE IF BlockSigRejected(str, block_sig) THEN Fail(taken, "bad_message")
        ELSE IF block_buf = <<>> THEN verified
        ELSE [verified EXCEPT !.pending_parts = Append(@, block_buf)]

\* process_part(ChunkHdr) for the extensions a peer chose.
ProcessChunkHdr(v, size, ext, hash) ==
    VerifyChunkHdr(v, size, block_sig_from_exts(ext, BlockSigStr(v, size, hash)), hash)

\* process_part(ChunkBody): qbuf->put throws length_error when the data does
\* not fit in the current block.
ProcessChunkBody_NoOverflowCheck(v, ind) ==
    [v EXCEPT !.body = @ \o ind, !.chunk_left = @ - Len(ind),
              !.pc = IF v.chunk_left = Len(ind) THEN "chunk_hdr" ELSE @,
              !.qbuf = @ \o ind]
ProcessChunkBody(v, ind) ==
    LET counted == [v EXCEPT !.body = @ \o ind, !.chunk_left = @ - Len(ind),
                             !.pc = IF v.chunk_left = Len(ind) THEN "chunk_hdr" ELSE @]
    IN  IF Len(v.qbuf) + Len(ind) > BlockSize THEN Fail(counted, "bad_message")
        ELSE [counted EXCEPT !.qbuf = @ \o ind]

\* Trailers a peer can send: Data-Size and Digest values and a signature
\* header: none, the injector's final signature, or one that does not verify.
\* A head that already carries the signed fields gets no second copy of them.
DigestsFor(v) ==
    {NoDigest, http_digest(v.body), http_digest(OrigBody), [alg |-> "MD5", val |-> v.body]}
Trailers(v) ==
    IF v.data_size # NoSize
    THEN [data_size : {NoSize}, digest : {NoDigest}, sig : {"none", "bad"}]
    ELSE [data_size : {NoSize} \cup 0..(DataSize + 1), digest : DigestsFor(v),
          sig : {"none", "sig1", "bad"}]

\* http_injection_verify on the head extended with the trailer: the final
\* signature verifies when the fields are those the injector signed.
TrailerSigned(tr) ==
    tr.sig = "sig1" /\ tr.data_size = DataSize /\ tr.digest = http_digest(OrigBody)

\* process_part(Trailer): the head is extended with the trailer and verified
\* again only when the trailer carries a signature header; the signature of
\* the head still verifies then, and headers no signature covers are dropped.
MergeTrailer(v, tr, covered) ==
    LET merged == [v EXCEPT !.data_size = IF @ = NoSize THEN tr.data_size ELSE @,
                            !.digest = IF @ = NoDigest THEN tr.digest ELSE @]
        head == IF tr.sig = "none" \/ covered THEN merged
                ELSE [merged EXCEPT !.data_size = NoSize, !.digest = NoDigest]
    IN  [head EXCEPT !.pc = "end", !.pending_parts = Append(@, TrailerPart)]

\* process_part(Trailer) for a trailer a peer chose.
ProcessTrailer(v, tr) ==
    MergeTrailer(v, tr, v.data_size # NoSize \/ TrailerSigned(tr))

\* for (hit in head.equal_range(digest)): same algorithm, different value.
DigestMismatch(h_digest, b_digest) ==
    h_digest.alg = b_digest.alg /\ h_digest.val # b_digest.val

\* check_body: the error code it leaves.
BodyError(v) ==
    IF v.data_size = NoSize THEN "bad_message"
    ELSE IF (IF v.range_begin # NoRange THEN v.range_end - v.range_begin ELSE v.data_size)
            # Len(v.body)
    THEN "bad_message"
    ELSE IF v.range_begin # NoRange /\ (v.range_begin > 0 \/ v.range_end < v.data_size)
    THEN "ok"
    ELSE IF DigestMismatch(v.digest, http_digest(v.body)) THEN "bad_message"
    ELSE "ok"

\* check_body, run by async_read_part once http_response::Reader is done.
check_body(v) ==
    IF v.is_done \/ v.pc # "end" \/ v.ec # "ok" THEN v
    ELSE [v EXCEPT !.is_done = TRUE, !.ec = BodyError(v)]

\* async_read_part reads from the stream only when pending_parts is empty, and
\* a caller stops reading at the first error.
CanRead(pc) == vr.pc = pc /\ vr.ec = "ok" /\ vr.pending_parts = <<>>

AsyncReadHead(h) ==
    /\ CanRead("head")
    /\ vr' = ProcessHead(vr, h)
    /\ UNCHANGED <<handed, lastBlock, lastTrailer>>
    /\ UNCHANGED notVrVars

AsyncReadChunkHdr(size, ext, hash) ==
    /\ CanRead("chunk_hdr")
    /\ vr' = ProcessChunkHdr(vr, size, ext, hash)
    /\ lastBlock' =
        IF size > BlockSize \/ (qbuf_get(vr.qbuf) = <<>> /\ size # 0) THEN lastBlock
        ELSE [checked |-> TRUE, data |-> BlockBuf(vr, size),
              str |-> BlockSigStr(vr, size, hash),
              sig |-> block_sig_from_exts(ext, BlockSigStr(vr, size, hash)),
              handed_before |-> Len(handed)]
    /\ UNCHANGED <<handed, lastTrailer>>
    /\ UNCHANGED notVrVars

AsyncReadChunkBody(ind) ==
    /\ CanRead("chunk_body")
    /\ Len(ind) <= vr.chunk_left
    /\ vr' = ProcessChunkBody(vr, ind)
    /\ UNCHANGED <<handed, lastBlock, lastTrailer>>
    /\ UNCHANGED notVrVars

AsyncReadTrailer(tr) ==
    /\ CanRead("trailer")
    /\ vr' = check_body(ProcessTrailer(vr, tr))
    /\ lastTrailer' = [received |-> TRUE, data_size |-> tr.data_size,
                       digest |-> tr.digest, sig |-> tr.sig,
                       head_data_size |-> vr.data_size, head_digest |-> vr.digest]
    /\ UNCHANGED <<handed, lastBlock>>
    /\ UNCHANGED notVrVars

\* async_read_part with a queued part: the part is returned to the caller.
AsyncReadPending ==
    /\ vr.ec = "ok"
    /\ vr.pending_parts # <<>>
    /\ vr' = check_body([vr EXCEPT !.pending_parts = Tail(@)])
    /\ handed' = IF Head(vr.pending_parts) = TrailerPart THEN handed
                 ELSE Append(handed, Head(vr.pending_parts))
    /\ UNCHANGED <<lastBlock, lastTrailer>>
    /\ UNCHANGED notVrVars

ChunkSizes == 0..(BlockSize + 1)
ChunkData == UNION {[1..n -> Bytes] : n \in 1..(BlockSize + 1)}

ReadHead == \E h \in Heads : AsyncReadHead(h)
ReadChunkHdr ==
    \E size \in ChunkSizes, ext \in SigKinds, hash \in HashExts :
        AsyncReadChunkHdr(size, ext, hash)
ReadChunkBody == \E ind \in ChunkData : AsyncReadChunkBody(ind)
ReadTrailer == \E tr \in Trailers(vr) : AsyncReadTrailer(tr)
ReadPending == AsyncReadPending

NextVr == ReadHead \/ ReadChunkHdr \/ ReadChunkBody \/ ReadTrailer \/ ReadPending

(***************************************************************************)
(* SigningReader, and a VerifyingReader reading what it emits              *)
(***************************************************************************)

\* Header fields of an origin response that to_cache_response keeps.
OriginFields == {"Content-Type: text/html"}

\* The values http_injection_head stamps on the head.
ResponseUri == "uri1"
NoValue == "none"

\* A response head: status, the origin's fields, the fields of the injection,
\* the fields the trailer adds, the X-Ouinet-Sig<n> headers, and the framing
\* (Transfer-Encoding: chunked, Trailer).
NoHead ==
    [status |-> NoValue, origin |-> {}, uri |-> NoValue, injection |-> NoValue,
     bsigs |-> NoValue, data_size |-> NoSize, digest |-> NoDigest, sigs |-> {},
     chunked |-> FALSE, trailer |-> FALSE]

\* without_framing, with the signature headers removed as well: what
\* http_signature signs and http_injection_verify verifies.
SignedFields(head) == [head EXCEPT !.sigs = {}, !.chunked = FALSE, !.trailer = FALSE]

\* http_signature(to_sign, sk, key_id, ts): the signature lists the headers of
\* to_sign and signs their values.
http_signature(to_sign, key) == [key |-> key, signed |-> SignedFields(to_sign)]

\* HttpSignature::verify: every header the signature lists must be in the head
\* with the signed value (verification_head), the status included.
SignatureVerifies(sig, head, pk) ==
    /\ sig.key = pk
    /\ sig.signed.status = head.status
    /\ sig.signed.origin \subseteq head.origin
    /\ sig.signed.uri # NoValue => sig.signed.uri = head.uri
    /\ sig.signed.injection # NoValue => sig.signed.injection = head.injection
    /\ sig.signed.bsigs # NoValue => sig.signed.bsigs = head.bsigs
    /\ sig.signed.data_size # NoSize => sig.signed.data_size = head.data_size
    /\ sig.signed.digest # NoDigest => sig.signed.digest = head.digest

\* http_injection_head: stamp the injection's fields, sign the head without
\* framing (X-Ouinet-Sig0), make it chunked and announce the trailer.
http_injection_head(inh, key) ==
    LET rsh == [inh EXCEPT !.uri = ResponseUri, !.injection = InjectionId,
                           !.bsigs = key]
    IN  [rsh EXCEPT !.sigs = {http_signature(rsh, key)},
                    !.chunked = TRUE, !.trailer = TRUE]

\* http_injection_trailer: Data-Size and Digest, and X-Ouinet-Sig1 over the
\* head without framing and initial signature plus the trailer's fields.
http_injection_trailer(outh, content_length, content_digest, key) ==
    LET to_sign == [outh EXCEPT !.data_size = content_length,
                                !.digest = content_digest]
    IN  [data_size |-> content_length, digest |-> content_digest,
         sigs |-> {http_signature(to_sign, key)}]

\* http_injection_verify: signatures that do not verify are dropped, with none
\* verifying the result is empty, and headers no verifying signature covers
\* are dropped; the framing stays.
http_injection_verify(rsh, pk) ==
    LET good == {sig \in rsh.sigs : SignatureVerifies(sig, rsh, pk)}
        kept == good \cup {sig \in rsh.sigs : sig.key # pk}
        Covered(f) == \E sig \in good : f \in sig.signed.origin
    IN  IF good = {} THEN NoHead
        ELSE [rsh EXCEPT
                !.sigs = kept,
                !.origin = {f \in @ : Covered(f)},
                !.uri = IF \E sig \in good : sig.signed.uri # NoValue
                        THEN @ ELSE NoValue,
                !.injection = IF \E sig \in good : sig.signed.injection # NoValue
                              THEN @ ELSE NoValue,
                !.bsigs = IF \E sig \in good : sig.signed.bsigs # NoValue
                          THEN @ ELSE NoValue,
                !.data_size = IF \E sig \in good : sig.signed.data_size # NoSize
                              THEN @ ELSE NoSize,
                !.digest = IF \E sig \in good : sig.signed.digest # NoDigest
                           THEN @ ELSE NoDigest]

\* A SHA-512 state: the digest it was seeded with and the data fed since.
\* close() of a state is the chain of the blocks that went into it.
NewHash == [prev |-> NoChain, data |-> <<>>]
HashClose_Unseeded(h) == <<h.data>>
HashClose(h) == Append(h.prev, h.data)

\* Parts of a response stream.
NoPart ==
    [kind |-> "none", size |-> 0, sig |-> NoSig, hash |-> NoChain, data |-> <<>>,
     head |-> NoHead]
HeadPart(head) == [NoPart EXCEPT !.kind = "head", !.head = head]
ChunkHdr(size, sig, hash) ==
    [NoPart EXCEPT !.kind = "chunk_hdr", !.size = size, !.sig = sig, !.hash = hash]
ChunkBody(data) == [NoPart EXCEPT !.kind = "chunk_body", !.data = data]
Trailer(tr) ==
    [NoPart EXCEPT !.kind = "trailer",
                   !.head = [NoHead EXCEPT !.data_size = tr.data_size,
                                           !.digest = tr.digest,
                                           !.sigs = tr.sigs]]

SignedChunkHdr_NextOffset(size, offset, digest) ==
    ChunkHdr(size, Sign(InjectorKey,
                        block_sig_str(InjectionId, offset + BlockSize, digest)), NoChain)

\* block_chunk_ext(injection_id, offset, digest, sk): the signature only.
SignedChunkHdr(size, offset, digest) ==
    ChunkHdr(size, Sign(InjectorKey, block_sig_str(InjectionId, offset, digest)), NoChain)

\* SigningReader::Impl after construction.
InitSigner ==
    [pc |-> "head", origin |-> <<>>, pos |-> 0, do_inject |-> FALSE, outh |-> NoHead,
     body_length |-> 0, block_offset |-> 0, block_size_last |-> 0,
     body_hash |-> <<>>, block_hash |-> NewHash, qbuf |-> <<>>,
     pending_parts |-> <<>>, is_done |-> FALSE]

\* The VerifyingReader of the round trip has read nothing.
InitSr ==
    /\ sr = InitSigner
    /\ srOut = <<>>
    /\ rt = InitReader
    /\ rtPos = 0
    /\ rtHead = NoHead
    /\ rtHanded = <<>>

\* Bodies of an origin response.
OriginBodies == {SubSeq(OrigBody, 1, n) : n \in 0..DataSize}
OriginHeads == {[NoHead EXCEPT !.status = "200", !.origin = fs] : fs \in SUBSET OriginFields}

\* process_part(Head): a response that to_cache_response rejects is passed on
\* as it is and the reader signs nothing.
SrProcessHead(s, inh, body, cacheable) ==
    LET started == [s EXCEPT !.pc = "body", !.origin = body]
    IN  IF ~cacheable THEN <<started, HeadPart(inh)>>
        ELSE <<[started EXCEPT !.do_inject = TRUE,
                               !.outh = http_injection_head(inh, InjectorKey)],
               HeadPart(http_injection_head(inh, InjectorKey))>>

\* process_part(std::vector<uint8_t> inbuf): the state after it and the chunk
\* header it returns, or NoPart.
SrProcessBody(s, inbuf) ==
    LET put == s.qbuf \o inbuf
        block_buf == IF Len(inbuf) > 0 THEN qbuf_get(put) ELSE qbuf_get_rest(put)
        counted == [s EXCEPT !.body_length = @ + Len(inbuf),
                             !.body_hash = IF s.do_inject THEN @ \o inbuf ELSE @,
                             !.qbuf = IF block_buf = <<>> THEN put ELSE <<>>]
        queued == [counted EXCEPT !.pending_parts = Append(@, ChunkBody(block_buf))]
        block_digest == HashClose(s.block_hash)
        seeded == IF s.block_offset > 0
                  THEN [prev |-> block_digest, data |-> <<>>]
                  ELSE s.block_hash
    IN  IF block_buf = <<>> THEN <<counted, NoPart>>
        ELSE IF ~s.do_inject THEN <<queued, ChunkHdr(Len(block_buf), NoSig, NoChain)>>
        ELSE <<[queued EXCEPT !.block_hash = [seeded EXCEPT !.data = @ \o block_buf],
                              !.block_offset = @ + Len(block_buf),
                              !.block_size_last = Len(block_buf)],
               IF s.block_offset > 0
               THEN SignedChunkHdr(Len(block_buf), s.block_offset - s.block_size_last,
                                   block_digest)
               ELSE ChunkHdr(Len(block_buf), NoSig, NoChain)>>

\* process_end: the rest of the last block if there is one, else the last
\* chunk header, with the trailer queued.
SrProcessEnd(s) ==
    LET last == SrProcessBody(s, <<>>)
        done == [s EXCEPT !.is_done = TRUE, !.pc = "done"]
    IN  IF s.is_done THEN <<s, NoPart>>
        ELSE IF last[2] # NoPart THEN last
        ELSE IF ~s.do_inject
        THEN <<[done EXCEPT !.pending_parts = Append(@, Trailer(NoHead))],
               ChunkHdr(0, NoSig, NoChain)>>
        ELSE <<[done EXCEPT !.pending_parts =
                    Append(@, Trailer(http_injection_trailer(
                                  s.outh, s.body_length, http_digest(s.body_hash),
                                  InjectorKey)))],
               SignedChunkHdr(0, s.block_offset - s.block_size_last,
                              HashClose(s.block_hash))>>

\* What async_read_part returns is appended to the stream.
Emit(out, part) == IF part = NoPart THEN out ELSE Append(out, part)

\* SigningReader::async_read_part, the origin's head arrives.
SrReadHead(inh, body, cacheable) ==
    /\ sr.pc = "head"
    /\ sr' = SrProcessHead(sr, inh, body, cacheable)[1]
    /\ srOut' = Emit(srOut, SrProcessHead(sr, inh, body, cacheable)[2])
    /\ UNCHANGED <<rt, rtPos, rtHead, rtHanded>>
    /\ UNCHANGED notSrVars

\* SigningReader::async_read_part with a queued part.
SrReadPending ==
    /\ sr.pending_parts # <<>>
    /\ sr' = [sr EXCEPT !.pending_parts = Tail(@)]
    /\ srOut' = Append(srOut, Head(sr.pending_parts))
    /\ UNCHANGED <<rt, rtPos, rtHead, rtHanded>>
    /\ UNCHANGED notSrVars

\* One turn of the loop of async_read_part: the next n bytes of the origin's
\* body arrive; they fit in the block being filled.
SrReadBody(n) ==
    /\ sr.pc = "body"
    /\ sr.pending_parts = <<>>
    /\ sr.pos + n <= Len(sr.origin)
    /\ Len(sr.qbuf) + n <= BlockSize
    /\ LET inbuf == SubSeq(sr.origin, sr.pos + 1, sr.pos + n)
           res == SrProcessBody([sr EXCEPT !.pos = @ + n], inbuf)
       IN  /\ sr' = res[1]
           /\ srOut' = Emit(srOut, res[2])
    /\ UNCHANGED <<rt, rtPos, rtHead, rtHanded>>
    /\ UNCHANGED notSrVars

\* async_read_part when the origin's response has ended.
SrReadEnd ==
    /\ sr.pc \in {"body", "done"}
    /\ sr.pending_parts = <<>>
    /\ sr.pos = Len(sr.origin)
    /\ sr' = SrProcessEnd(sr)[1]
    /\ srOut' = Emit(srOut, SrProcessEnd(sr)[2])
    /\ UNCHANGED <<rt, rtPos, rtHead, rtHanded>>
    /\ UNCHANGED notSrVars

\* The head as process_part(Head) of VerifyingReader sees it.
HeadFlags(inh, pk) ==
    LET head == http_injection_verify(inh, pk)
    IN  [signed |-> head # NoHead, chunked |-> head.chunked,
         bsigs |-> head.bsigs # NoValue, injection |-> head.injection # NoValue,
         final |-> head.data_size # NoSize, range |-> <<NoRange, NoRange>>]

\* process_part(Trailer), the head: every trailer field is inserted, and the
\* head is verified again if the trailer brought a signature.
RtTrailerHead(head, intr, pk) ==
    LET extended == [head EXCEPT
                        !.data_size = IF @ = NoSize THEN intr.data_size ELSE @,
                        !.digest = IF @ = NoDigest THEN intr.digest ELSE @,
                        !.sigs = @ \cup intr.sigs]
    IN  IF intr.sigs # {} THEN http_injection_verify(extended, pk) ELSE extended

\* The position of http_response::Reader at which a part of a kind can come.
PartAt ==
    [head |-> "head", chunk_hdr |-> "chunk_hdr", chunk_body |-> "chunk_body",
     trailer |-> "trailer"]

\* VerifyingReader::Impl::process_part on a part of the stream.
RtProcessPart(v, head, part) ==
    IF PartAt[part.kind] # v.pc
       \/ (part.kind = "chunk_body" /\ Len(part.data) # v.chunk_left)
    THEN Fail(v, "parse_error")
    ELSE IF part.kind = "head" THEN ProcessHead(v, HeadFlags(part.head, InjectorKey))
    ELSE IF part.kind = "chunk_hdr" THEN VerifyChunkHdr(v, part.size, part.sig, part.hash)
    ELSE IF part.kind = "chunk_body" THEN ProcessChunkBody(v, part.data)
    ELSE IF RtTrailerHead(head, part.head, InjectorKey) = NoHead
    THEN Fail(v, "bad_message")
    ELSE check_body(MergeTrailer(
             v,
             [data_size |-> part.head.data_size, digest |-> part.head.digest,
              sig |-> IF part.head.sigs = {} THEN "none" ELSE "sig1"],
             RtTrailerHead(head, part.head, InjectorKey).data_size # NoSize))

\* VerifyingReader::async_read_part on the next part the SigningReader
\* emitted.
RtReadPart ==
    /\ rt.ec = "ok"
    /\ rt.pending_parts = <<>>
    /\ rtPos < Len(srOut)
    /\ rt' = RtProcessPart(rt, rtHead, srOut[rtPos + 1])
    /\ rtPos' = rtPos + 1
    /\ rtHead' = IF srOut[rtPos + 1].kind = "head"
                 THEN http_injection_verify(srOut[rtPos + 1].head, InjectorKey)
                 ELSE IF srOut[rtPos + 1].kind = "trailer"
                 THEN RtTrailerHead(rtHead, srOut[rtPos + 1].head, InjectorKey)
                 ELSE rtHead
    /\ UNCHANGED <<sr, srOut, rtHanded>>
    /\ UNCHANGED notSrVars

\* VerifyingReader::async_read_part with a queued part.
RtReadPending ==
    /\ rt.ec = "ok"
    /\ rt.pending_parts # <<>>
    /\ rt' = check_body([rt EXCEPT !.pending_parts = Tail(@)])
    /\ rtHanded' = IF Head(rt.pending_parts) = TrailerPart THEN rtHanded
                   ELSE Append(rtHanded, Head(rt.pending_parts))
    /\ UNCHANGED <<sr, srOut, rtPos, rtHead>>
    /\ UNCHANGED notSrVars

OriginHeadArrives ==
    \E inh \in OriginHeads, body \in OriginBodies, cacheable \in BOOLEAN :
        SrReadHead(inh, body, cacheable)
OriginBodyArrives == \E n \in 1..BlockSize : SrReadBody(n)

NextSr ==
    \/ OriginHeadArrives
    \/ OriginBodyArrives
    \/ SrReadEnd
    \/ SrReadPending
    \/ RtReadPart
    \/ RtReadPending

(***************************************************************************)
(* Local response store: http_store and the readers over a stored entry    *)
(***************************************************************************)

\* Bound: blocks of the stored response; the last block is one byte long.
StoreBlocks == 3
StoreSize == (StoreBlocks - 1) * BlockSize + 1

\* The body of the stored response (every byte differs), its blocks, the
\* chain hash up to each block and the injector's signature of each block.
StoreData == [i \in 1..StoreSize |-> i]
StoreBlock(j) ==
    SubSeq(StoreData, j * BlockSize + 1,
           IF (j + 1) * BlockSize < StoreSize THEN (j + 1) * BlockSize ELSE StoreSize)
StoreChain(j) == [i \in 1..(j + 1) |-> StoreBlock(i - 1)]
StoreSig(j) == Sign(InjectorKey, block_sig_str(InjectionId, j * BlockSize, StoreChain(j)))

\* The signed response the injector sends: head with X-Ouinet-Sig0, one chunk
\* per block whose header carries the previous block's signature, the last
\* chunk with the last block's signature, and the trailer with X-Ouinet-Sig1.
SignedHead ==
    http_injection_head([NoHead EXCEPT !.status = "200", !.origin = OriginFields],
                        InjectorKey)
SignedTrailer ==
    http_injection_trailer(SignedHead, StoreSize, http_digest(StoreData), InjectorKey)
RECURSIVE SignedChunks(_)
SignedChunks(n) ==
    IF n = 0 THEN <<>>
    ELSE SignedChunks(n - 1)
         \o <<ChunkHdr(Len(StoreBlock(n - 1)),
                       IF n = 1 THEN NoSig ELSE StoreSig(n - 2), NoChain),
              ChunkBody(StoreBlock(n - 1))>>
SignedStream ==
    <<HeadPart(SignedHead)>> \o SignedChunks(StoreBlocks)
    \o <<ChunkHdr(0, StoreSig(StoreBlocks - 1), NoChain), Trailer(SignedTrailer)>>

\* Where the stream being stored ends: after the trailer, or (the connection
\* closes) after the body of a block that follows a signed one.
StoreCuts == {Len(SignedStream)} \cup {1 + 2 * k : k \in 2..StoreBlocks}

\* An entry of the store: the `head`, `body` and `sigs` files.
NoStored == [head |-> NoHead, body |-> <<>>, sigs |-> <<>>]

RECURSIVE Flatten(_)
Flatten(seqs) == IF seqs = <<>> THEN <<>> ELSE Head(seqs) \o Flatten(Tail(seqs))

\* Line i of `sigs`: OFFSET[i] SIG[i] DHASH[i] CHASH[i-1].
SigsLine(i, sig, body) ==
    LET data == SubSeq(body, i * BlockSize + 1,
                       IF (i + 1) * BlockSize < Len(body) THEN (i + 1) * BlockSize
                       ELSE Len(body))
    IN  [offset |-> i * BlockSize, sig |-> sig, dhash |-> data,
         chash |-> IF i = 0 THEN NoChain
                   ELSE [k \in 1..i |-> SubSeq(body, (k - 1) * BlockSize + 1,
                                               k * BlockSize)]]

\* http_store: the head goes to `head` without framing, chunk data to `body`,
\* and every signature a chunk header carries to a line of `sigs`; when the
\* trailer arrives its fields are merged into the head, of whose signatures
\* the one covering most headers is kept.
http_store(parts) ==
    LET body == Flatten([k \in 1..Len(SelectSeq(parts, LAMBDA p : p.kind = "chunk_body"))
                          |-> SelectSeq(parts, LAMBDA p : p.kind = "chunk_body")[k].data])
        signed == SelectSeq(parts, LAMBDA p : p.kind = "chunk_hdr" /\ p.sig # NoSig)
        head == [parts[1].head EXCEPT !.chunked = FALSE, !.trailer = FALSE]
        last == parts[Len(parts)]
    IN  [head |-> IF last.kind = "trailer"
                  THEN [head EXCEPT !.data_size = last.head.data_size,
                                    !.digest = last.head.digest,
                                    !.sigs = last.head.sigs]
                  ELSE head,
         body |-> body,
         sigs |-> [i \in 1..Len(signed) |-> SigsLine(i - 1, signed[i].sig, body)]]

BodyBlock_Rewound(e, b) ==
    SubSeq(e.body, 1, IF BlockSize < Len(e.body) THEN BlockSize ELSE Len(e.body))

\* The data of block b in `body` (empty beyond the end of the file).
BodyBlock(e, b) ==
    SubSeq(e.body, b * BlockSize + 1,
           IF (b + 1) * BlockSize < Len(e.body) THEN (b + 1) * BlockSize ELSE Len(e.body))

\* A closed reader; first_block and last_block bound the blocks to send, exts
\* are the chunk extensions for the next chunk header.
NoExts == [sig |-> NoSig, hash |-> NoChain]
NoReader ==
    [pc |-> "closed", ec |-> "ok", ranged |-> FALSE, block |-> 0, last_block |-> 0,
     first |-> 0, last |-> 0, exts |-> NoExts]

\* X-Ouinet-Avail-Data: the bytes whose block has a line in `sigs`.
AvailData(e) ==
    IF e.sigs = <<>> THEN 0
    ELSE LET end == Len(e.sigs) * BlockSize
         IN  IF end < Len(e.body) THEN end ELSE Len(e.body)

\* http_store_range_reader reports invalid_seek when the range covers data
\* which is not stored.
RangeStored_Always(e, first, last) == TRUE
RangeStored(e, first, last) == last < AvailData(e)

\* The head a reader sends: the stored head with chunked framing; for a range,
\* status 206 with the original status in X-Ouinet-HTTP-Status and the
\* Content-Range of the blocks sent.
ContentRange_OpenEnd(e, first_block, last_block) ==
    <<first_block * BlockSize, (last_block + 1) * BlockSize - 1, e.head.data_size>>
ContentRange(e, first_block, last_block) ==
    LET end == (last_block + 1) * BlockSize
    IN  <<first_block * BlockSize,
          (IF end < AvailData(e) THEN end ELSE AvailData(e)) - 1,
          e.head.data_size>>
ReaderHead(e, r) ==
    IF r.ranged
    THEN [http_status |-> e.head.status,
          content_range |-> ContentRange(e, r.block, r.last_block)]
         @@ [e.head EXCEPT !.status = "206", !.chunked = TRUE]
    ELSE [e.head EXCEPT !.chunked = TRUE]

\* The trailer a reader sends is empty: its fields are in the head.
EmptyTrailer == Trailer([data_size |-> NoSize, digest |-> NoDigest, sigs |-> {}])

\* The data after a chunk header is sent when the block's line of `sigs` was
\* found.
SendsBody_Unsigned(line, data) == data # <<>>
SendsBody(line, data) == line.sig # NoSig /\ data # <<>>

\* HttpStoreReader::async_read_part: the next part and the reader after it.
\* A chunk header carries the signature of the block sent before it and
\* announces the data that follows in `body`; the data itself is sent only when
\* its own line of `sigs` was found.  With neither a line nor a signature left
\* to send the stream ends.
StoreReadStep(e, r) ==
    LET in_range == r.block <= r.last_block
        line == IF in_range /\ r.block < Len(e.sigs) THEN e.sigs[r.block + 1] ELSE NoExts
        data == IF in_range THEN BodyBlock(e, r.block) ELSE <<>>
    IN  CASE r.pc = "head" ->
               [part |-> HeadPart(ReaderHead(e, r)), reader |-> [r EXCEPT !.pc = "chunk_hdr"]]
          [] r.pc = "chunk_hdr" /\ line.sig = NoSig /\ r.exts = NoExts ->
               [part |-> NoPart, reader |-> [r EXCEPT !.pc = "done"]]
          [] r.pc = "chunk_hdr" /\ ~(line.sig = NoSig /\ r.exts = NoExts) ->
               [part |-> ChunkHdr(Len(data), r.exts.sig, r.exts.hash),
                reader |-> [r EXCEPT
                    !.exts = [sig |-> line.sig,
                              hash |-> IF line.sig = NoSig THEN NoChain ELSE line.chash],
                    !.pc = IF SendsBody(line, data) THEN "chunk_body"
                           ELSE IF data = <<>> THEN "trailer" ELSE "chunk_hdr",
                    !.block = IF SendsBody(line, data) THEN @ ELSE @ + 1]]
          [] r.pc = "chunk_body" ->
               [part |-> ChunkBody(data),
                reader |-> [r EXCEPT !.pc = "chunk_hdr", !.block = @ + 1]]
          [] r.pc = "trailer" ->
               [part |-> EmptyTrailer, reader |-> [r EXCEPT !.pc = "done"]]

InitStore ==
    /\ stored = NoStored
    /\ reader = NoReader
    /\ loaded = <<>>

\* http_store(reader, dirp): store the stream up to where it ends.
HttpStore(cut) ==
    /\ stored = NoStored
    /\ stored' = http_store(SubSeq(SignedStream, 1, cut))
    /\ UNCHANGED <<reader, loaded>>
    /\ UNCHANGED notStoreVars

\* http_store_reader(dirp): a reader of the whole stored response.
HttpStoreReader ==
    /\ stored # NoStored
    /\ reader.pc = "closed" /\ reader.ec = "ok"
    /\ reader' = [NoReader EXCEPT !.pc = "head",
                                  !.last_block = Len(stored.body) \div BlockSize]
    /\ UNCHANGED <<stored, loaded>>
    /\ UNCHANGED notStoreVars

\* http_store_range_reader(dirp, first, last).
HttpStoreRangeReader(first, last) ==
    /\ stored # NoStored
    /\ reader.pc = "closed" /\ reader.ec = "ok"
    /\ reader' = IF RangeStored(stored, first, last)
                 THEN [NoReader EXCEPT !.pc = "head", !.ranged = TRUE,
                                       !.first = first, !.last = last,
                                       !.block = first \div BlockSize,
                                       !.last_block = last \div BlockSize]
                 ELSE [NoReader EXCEPT !.ec = "invalid_seek", !.ranged = TRUE,
                                       !.first = first, !.last = last]
    /\ UNCHANGED <<stored, loaded>>
    /\ UNCHANGED notStoreVars

\* One async_read_part of the open reader.
StoreReadPart ==
    /\ reader.pc \notin {"closed", "done"}
    /\ LET step == StoreReadStep(stored, reader)
       IN  /\ reader' = step.reader
           /\ loaded' = Emit(loaded, step.part)
    /\ UNCHANGED stored
    /\ UNCHANGED notStoreVars

StoreResponse == \E cut \in StoreCuts : HttpStore(cut)
OpenRangeReader ==
    \E first \in 0..(StoreSize + 1), last \in 0..(StoreSize + 1) :
        first <= last /\ HttpStoreRangeReader(first, last)

NextStore == StoreResponse \/ HttpStoreReader \/ OpenRangeReader \/ StoreReadPart

(***************************************************************************)
(* High-level write operations of DhtNode                                  *)
(***************************************************************************)

\* The operations.
WriteOps == {"tracker_announce", "data_put_immutable", "data_put_mutable"}

\* Candidates of the lookup: contacts from the routing table, which have an
\* id, and a bootstrap endpoint, which has none (candidate.id == boost::none).
RoutingContacts == {"n1", "n2"}
BootstrapContacts == {"boot"}
Contacts == RoutingContacts \cup BootstrapContacts
HasId(c) == c \in RoutingContacts

InitWrite ==
    wr = [op |-> "none", pc |-> "idle", cancel |-> FALSE, cancelled |-> FALSE,
          terminated |-> FALSE, lookup_ec |-> "ok", probed |-> {},
          responsible_nodes |-> {}, write |-> [c \in Contacts |-> "none"],
          success |-> FALSE, ec |-> "ok"]

\* ec = cancelled ? operation_aborted : success ? ok : network_down.
WriteResult_IgnoreCancel(cancelled, success) ==
    IF success THEN "ok" ELSE "network_down"
WriteResult(cancelled, success) ==
    IF cancelled THEN "operation_aborted"
    ELSE IF success THEN "ok" ELSE "network_down"

\* The end of data_put_mutable: if (cancel_signal) ec = operation_aborted;
\* else if (responsible_nodes.empty()) ec = network_down; else ec is the one
\* collect left.
MutableResult(cancel_signal, responsible_nodes, ec) ==
    IF cancel_signal THEN "operation_aborted"
    ELSE IF responsible_nodes = {} THEN "network_down"
    ELSE ec

\* DhtNode::collect: try_again without a routing table; after the search,
\* operation_aborted when the node was stopped; the search itself ends with
\* operation_aborted when the caller's cancel signal fired.
CollectResult(routing_table, cancel_signal, terminated) ==
    IF ~routing_table THEN "try_again"
    ELSE IF cancel_signal \/ terminated THEN "operation_aborted"
    ELSE "ok"

\* The operation is called.  Without a routing table collect returns at once
\* and so does the operation.
CallWrite(op, routing_table) ==
    /\ wr.pc = "idle"
    /\ wr' = IF routing_table THEN [wr EXCEPT !.op = op, !.pc = "lookup"]
             ELSE [wr EXCEPT !.op = op, !.pc = "done",
                             !.lookup_ec = CollectResult(FALSE, FALSE, FALSE),
                             !.ec = IF op = "data_put_mutable"
                                    THEN MutableResult(FALSE, {}, CollectResult(FALSE, FALSE, FALSE))
                                    ELSE CollectResult(FALSE, FALSE, FALSE)]
    /\ UNCHANGED notWrVars

\* The Evaluate callback of tracker_do_search_peers and data_put_immutable
\* for one candidate: a candidate with an id that replies with a token
\* becomes a responsible node.
EvaluateCollect(c, replied, token) ==
    /\ wr.pc = "lookup"
    /\ wr.op \in {"tracker_announce", "data_put_immutable"}
    /\ ~wr.cancel /\ ~wr.terminated
    /\ c \notin wr.probed
    /\ wr' = [wr EXCEPT !.probed = @ \cup {c},
                        !.responsible_nodes =
                            IF replied /\ token /\ HasId(c) THEN @ \cup {c} ELSE @]
    /\ UNCHANGED notWrVars

\* The Evaluate callback of data_put_mutable for one candidate: the write is
\* sent from within the lookup, and the candidate becomes a responsible node
\* only when that write succeeds.  A candidate that holds an older item is
\* written to once more, and nothing records the outcome; "outcome" is what
\* that second write does: for a candidate without id it dereferences an
\* empty optional, after which the operation may also never return.
EvaluatePutMutable(c, replied, token, write_success, stale, outcome) ==
    /\ wr.pc = "lookup"
    /\ wr.op = "data_put_mutable"
    /\ ~wr.cancel /\ ~wr.terminated
    /\ c \notin wr.probed
    /\ outcome = "crash" => ~HasId(c)
    /\ wr' =
        IF ~replied \/ ~token THEN [wr EXCEPT !.probed = @ \cup {c}]
        ELSE IF HasId(c) /\ write_success
        THEN [wr EXCEPT !.probed = @ \cup {c}, !.responsible_nodes = @ \cup {c},
                        !.write[c] = "ok"]
        ELSE IF ~stale
        THEN [wr EXCEPT !.probed = @ \cup {c},
                        !.write[c] = IF HasId(c) THEN "failed" ELSE @]
        ELSE [wr EXCEPT !.probed = @ \cup {c},
                        !.write[c] = IF outcome = "ok" THEN "ok_unrecorded" ELSE "failed",
                        !.pc = IF outcome = "crash" THEN "crashed" ELSE @]
    /\ UNCHANGED notWrVars

\* The caller's cancel signal fires.
CancelWrite ==
    /\ wr.pc \in {"lookup", "writing"}
    /\ ~wr.cancel
    /\ wr' = [wr EXCEPT !.cancel = TRUE, !.cancelled = (wr.pc = "writing")]
    /\ UNCHANGED notWrVars

\* DhtNode::_cancel fires: the node is stopped.
TerminateNode ==
    /\ wr.pc \in {"lookup", "writing"}
    /\ ~wr.terminated
    /\ wr' = [wr EXCEPT !.terminated = TRUE]
    /\ UNCHANGED notWrVars

\* collect returns.  tracker_announce and data_put_immutable return its error,
\* or connect to the cancel signal and spawn one send_write_query for each
\* responsible node; data_put_mutable returns.
CollectReturns ==
    LET ec == CollectResult(TRUE, wr.cancel, wr.terminated)
    IN  /\ wr.pc = "lookup"
        /\ wr' =
            IF wr.op = "data_put_mutable"
            THEN [wr EXCEPT !.pc = "done", !.lookup_ec = ec,
                            !.ec = MutableResult(wr.cancel, wr.responsible_nodes, ec)]
            ELSE IF ec # "ok"
            THEN [wr EXCEPT !.pc = "done", !.lookup_ec = ec, !.ec = ec]
            ELSE [wr EXCEPT !.pc = "writing", !.lookup_ec = ec,
                            !.write = [c \in Contacts |->
                                         IF c \in wr.responsible_nodes THEN "pending"
                                         ELSE "none"]]
        /\ UNCHANGED notWrVars

\* One spawned send_write_query returns; it cannot succeed once the caller's
\* cancel signal or the node's has fired.
WriteReturns(c, ok) ==
    /\ wr.pc = "writing"
    /\ wr.write[c] = "pending"
    /\ ok => ~wr.cancel /\ ~wr.terminated
    /\ wr' = [wr EXCEPT !.write[c] = IF ok THEN "ok" ELSE "failed",
                        !.success = @ \/ ok]
    /\ UNCHANGED notWrVars

\* wc.wait returns once every spawned write has returned.
WaitReturns ==
    /\ wr.pc = "writing"
    /\ \A c \in Contacts : wr.write[c] # "pending"
    /\ wr' = [wr EXCEPT !.pc = "done", !.ec = WriteResult(wr.cancelled, wr.success)]
    /\ UNCHANGED notWrVars

StartWrite == \E op \in WriteOps, routing_table \in BOOLEAN : CallWrite(op, routing_table)
ProbeCandidate ==
    \E c \in Contacts, replied \in BOOLEAN, token \in BOOLEAN :
        EvaluateCollect(c, replied, token)
ProbeAndPut ==
    \E c \in Contacts, replied \in BOOLEAN, token \in BOOLEAN, write_success \in BOOLEAN,
       stale \in BOOLEAN, outcome \in {"ok", "failed", "crash"} :
        EvaluatePutMutable(c, replied, token, write_success, stale, outcome)
WriteQueryReturns == \E c \in Contacts, ok \in BOOLEAN : WriteReturns(c, ok)

NextWrite ==
    \/ StartWrite
    \/ ProbeCandidate
    \/ ProbeAndPut
    \/ CancelWrite
    \/ TerminateNode
    \/ CollectReturns
    \/ WriteQueryReturns
    \/ WaitReturns

(***************************************************************************)
(* MainlineDht: operations fanned out over the DhtNodes                    *)
(***************************************************************************)

FanOps == {"tracker_announce", "mutable_put", "tracker_get_peers", "immutable_get",
           "mutable_get"}

\* MainlineDht::_nodes.
DhtNodes == {"node4", "node6"}

InitFan ==
    fan = [op |-> "none", pc |-> "idle", child |-> [n \in DhtNodes |-> "none"],
           success |-> FALSE, cancelled |-> FALSE, caller_cancel |-> FALSE,
           child_cancel |-> FALSE, terminated |-> FALSE, ec |-> "ok",
           late_child |-> FALSE, output |-> {}, ret |-> {}]

\* The operations that wait on a WaitCondition (wait_all, completed_condition)
\* whose locks the children hold; tracker_announce has none.
WaitsForAll(op) == op # "tracker_announce"

\* The operations whose children get a cancel signal the operation fires
\* after wait_for_success: cancel_attempts(), or cancel() on success in
\* mutable_put; the children of tracker_announce get cancel_dummy.
FiresChildCancel(op, success) ==
    \/ op \in {"tracker_get_peers", "immutable_get", "mutable_get"}
    \/ op = "mutable_put" /\ success

\* Cancel cancel(top_cancel) in mutable_put: the children's signal fires with
\* the caller's.
ChildCancelFollowsCaller(op) == op = "mutable_put"

\* The error code after wait_for_success.
FanResult(op, success, cancelled) ==
    IF success THEN "ok"
    ELSE IF cancelled THEN "operation_aborted"
    ELSE IF op \in {"immutable_get", "mutable_get"} THEN "not_found"
    ELSE "network_unreachable"

\* What a child coroutine leaves in the operation's output when its node
\* found something: tracker_get_peers inserts the peers, immutable_get and
\* mutable_get assign the data; the writes have no output.
StoreOutput(op, output, n) ==
    IF op = "tracker_get_peers" THEN output \cup {n}
    ELSE IF op \in {"immutable_get", "mutable_get"} THEN {n}
    ELSE output

\* The value the operation returns: mutable_get passes its output to
\* or_throw, tracker_get_peers and immutable_get call or_throw<T>(yield, ec),
\* which returns a value-initialized T.
FanReturnValue(op, output) ==
    IF op = "mutable_get" THEN output ELSE {}

\* SuccessCondition::wait_for_success returns once a lock was released with
\* success, the condition was cancelled, or every lock is gone.
SuccessWaitOver(f) ==
    f.success \/ f.cancelled \/ \A n \in DhtNodes : f.child[n] = "done"

\* WaitCondition::wait returns once every lock is gone.
WaitAllOver(f) == \A n \in DhtNodes : f.child[n] = "done"

\* The operation is called: one coroutine is spawned for each node and the
\* operation waits in wait_for_success.
CallFan(op) ==
    /\ fan.pc = "idle"
    /\ fan' = [fan EXCEPT !.op = op, !.pc = "wait_for_success",
                          !.child = [n \in DhtNodes |-> "running"]]
    /\ UNCHANGED notFanVars

\* A child coroutine runs to its end: the node's operation returns, the child
\* stores its result in the operation's output and releases its locks.  The
\* node's operation fails once the child's cancel signal has fired or the
\* nodes were stopped.
ChildReturns(n, ok) ==
    /\ fan.child[n] = "running"
    /\ ok => ~fan.child_cancel /\ ~fan.terminated
    /\ fan' = [fan EXCEPT !.child[n] = "done",
                          !.success = @ \/ (ok /\ fan.pc = "wait_for_success"),
                          !.output = IF ok THEN StoreOutput(fan.op, @, n) ELSE @,
                          !.late_child = @ \/ fan.pc = "returned"]
    /\ UNCHANGED notFanVars

\* The caller's cancel signal fires while the operation is in progress.
CallerCancels ==
    /\ fan.pc \in {"wait_for_success", "wait_all"}
    /\ ~fan.caller_cancel
    /\ fan' = [fan EXCEPT !.caller_cancel = TRUE,
                          !.cancelled = @ \/ fan.pc = "wait_for_success",
                          !.child_cancel = @ \/ ChildCancelFollowsCaller(fan.op)]
    /\ UNCHANGED notFanVars

\* MainlineDht::_cancel fires (~MainlineDht): the nodes are erased and stopped
\* and the condition is cancelled.
DhtTerminates ==
    /\ fan.pc \in {"wait_for_success", "wait_all"}
    /\ ~fan.terminated
    /\ fan' = [fan EXCEPT !.terminated = TRUE,
                          !.cancelled = @ \/ fan.pc = "wait_for_success"]
    /\ UNCHANGED notFanVars

\* wait_for_success returns; the operation computes its error code, fires the
\* children's cancel signal if it has one, and either waits for all children
\* or returns.
SuccessWaitReturns ==
    /\ fan.pc = "wait_for_success"
    /\ SuccessWaitOver(fan)
    /\ fan' = [fan EXCEPT !.ec = FanResult(fan.op, fan.success, fan.cancelled),
                          !.child_cancel = @ \/ FiresChildCancel(fan.op, fan.success),
                          !.ret = IF WaitsForAll(fan.op) THEN @
                                  ELSE FanReturnValue(fan.op, fan.output),
                          !.pc = IF WaitsForAll(fan.op) THEN "wait_all" ELSE "returned"]
    /\ UNCHANGED notFanVars

\* wait_all.wait / completed_condition.wait returns and so does the operation.
WaitAllReturns ==
    /\ fan.pc = "wait_all"
    /\ WaitAllOver(fan)
    /\ fan' = [fan EXCEPT !.pc = "returned",
                          !.ret = FanReturnValue(fan.op, fan.output)]
    /\ UNCHANGED notFanVars

StartFan == \E op \in FanOps : CallFan(op)
ChildFinishes == \E n \in DhtNodes, ok \in BOOLEAN : ChildReturns(n, ok)

NextFan ==
    \/ StartFan
    \/ ChildFinishes
    \/ CallerCancels
    \/ DhtTerminates
    \/ SuccessWaitReturns
    \/ WaitAllReturns

(***************************************************************************)
(* Bep5 HTTP cache client: storing a fetched response in a file            *)
(***************************************************************************)

\* Fetches of the same key that may run during one execution.
MaxFetches == 2

\* Number of writes flush_response makes for the complete response.
RespParts == 3

Fetches == 1..MaxFetches

\* No file at the final path; no temporary file.
NoEntry == [fetch |-> 0, parts |-> 0]
NoTemp == -1

\* Error codes flush_response can leave: a failed write, a failed or truncated
\* read from the connection, cancellation.
FlushErrors == {"write_error", "connection_error", "operation_aborted"}

IdleFetch == [pc |-> "idle", temp |-> NoTemp, keep_on_close |-> FALSE, ec |-> "ok"]

InitFile ==
    /\ final = NoEntry
    /\ fetch = [f \in Fetches |-> IdleFetch]
    /\ served = NoEntry

\* temp_file::close: the temporary file is removed unless keep_on_close is set.
temp_file_close(temp, keep_on_close) == IF keep_on_close THEN temp ELSE NoTemp

\* Session::flush_response can return without error only once it has written
\* the whole response.
FlushComplete(temp) == temp = RespParts

\* if (!ec) file.commit(ec).
CommitAllowed_Always(ec) == TRUE
CommitAllowed(ec) == ec = "ok"

\* util::mkatomic from load_from_connection: a temporary file with a unique
\* name is created next to the final path, and the coroutine that writes the
\* response to it is spawned; nothing is spawned when mkatomic fails.
Mkatomic(f, ok) ==
    /\ fetch[f].pc = "idle"
    /\ fetch' = [fetch EXCEPT ![f] =
                    IF ok THEN [@ EXCEPT !.pc = "flushing", !.temp = 0]
                    ELSE [@ EXCEPT !.pc = "done", !.ec = "open_error"]]
    /\ UNCHANGED <<final, served>>
    /\ UNCHANGED notFileVars

\* flush_response writes the next part of the response to the temporary file.
FlushWrite(f) ==
    /\ fetch[f].pc = "flushing"
    /\ fetch[f].temp < RespParts
    /\ fetch' = [fetch EXCEPT ![f].temp = @ + 1]
    /\ UNCHANGED <<final, served>>
    /\ UNCHANGED notFileVars

\* flush_response returns, without error only when the whole response was
\* written; the coroutine commits if there was no error and ends, which
\* destroys the atomic_file.  atomic_file::commit: keep_on_close(true),
\* close, rename to the final path, keep_on_close(false); the destructor
\* closes the temporary file again, which removes it if it is still there.
FlushReturns(f, ec, rename_ok) ==
    LET commit == CommitAllowed(ec)
        closed == temp_file_close(fetch[f].temp, commit)
        renamed == commit /\ rename_ok
    IN  /\ fetch[f].pc = "flushing"
        /\ ec = "ok" => FlushComplete(fetch[f].temp)
        /\ final' = IF renamed THEN [fetch |-> f, parts |-> closed] ELSE final
        /\ fetch' = [fetch EXCEPT ![f] =
                        [pc |-> "done",
                         temp |-> IF renamed THEN NoTemp ELSE temp_file_close(closed, FALSE),
                         keep_on_close |-> FALSE,
                         ec |-> IF commit /\ ~rename_ok THEN "rename_error" ELSE ec]]
        /\ UNCHANGED served
        /\ UNCHANGED notFileVars

\* Client::serve opens the final path and sends what the file holds.
Serve ==
    /\ served' = final
    /\ UNCHANGED <<final, fetch>>
    /\ UNCHANGED notFileVars

StartFetch == \E f \in Fetches, ok \in BOOLEAN : Mkatomic(f, ok)
WritePart == \E f \in Fetches : FlushWrite(f)
EndFetch ==
    \E f \in Fetches, ec \in FlushErrors \cup {"ok"}, rename_ok \in BOOLEAN :
        FlushReturns(f, ec, rename_ok)

NextFile == StartFetch \/ WritePart \/ EndFetch \/ Serve

(***************************************************************************)
(* Inbound ping, find_node and get queries, and the node's own reading of  *)
(* a reply                                                                 *)
(***************************************************************************)

\* _node_id of the node answering.
NodeId == "self"

\* Transaction ids of inbound queries.
QueryTids == {"t1", "t2"}

\* boost::none for the optional argument "seq".
NoSeq == -1

\* An inbound query: "q" may be missing; "target" and "seq" are arguments of
\* find_node and get.
InboundQueries ==
    [sender : Endpoints, t : QueryTids, q : {"ping", "find_node", "get", NoValue},
     target : Keys, seq : Seqs \cup {NoSeq}]

\* send_error: { y: "e", t: transaction, e: [code, description] }
send_error(transaction, code, description) ==
    [y |-> "e", t |-> transaction, e |-> <<code, description>>]

\* send_reply: reply["id"] = _node_id, then { y: "r", t: transaction,
\* e: reply }.
send_reply(transaction, reply) ==
    [y |-> "r", t |-> transaction, e |-> [reply EXCEPT !.id = NodeId]]

\* The result dictionary of a reply; keys that are not set hold NoValue.
NoResult ==
    [id |-> NoValue, nodes |-> {}, token |-> NoValue, k |-> NoValue, seq |-> NoSeq,
     sig |-> NoValue, v |-> NoValue]

\* _routing_table->find_closest_routing_nodes(target, BUCKET_SIZE)
find_closest_routing_nodes(target) == RoutingContacts

\* _data_store->generate_token(sender.address(), target)
generate_token(address, target) == [address |-> address, target |-> target]

\* _data_store->get_immutable(target): no immutable item is stored under the
\* target of a mutable item.
get_immutable(target) == NoValue

\* The public key of the item stored under a target and its stored signature,
\* which a put has verified.
PublicKey(key) == IF key = "pkA.salt" THEN "pkA" ELSE "pkB"
ItemSignature(key, item) == [k |-> PublicKey(key), seq |-> item.seq, v |-> item.v]

\* The item is left out of the reply to a get.
ItemOmitted(sequence_number, item) ==
    sequence_number # NoSeq /\ sequence_number <= item.seq

\* handle_query for "get": nodes and token, then the immutable value (without
\* "seq") or the mutable item.
GetReply(store, q) ==
    LET reply == [NoResult EXCEPT !.nodes = find_closest_routing_nodes(q.target),
                                  !.token = generate_token(q.sender, q.target)]
        mutable_item == get_mutable(store, q.target)
    IN  IF q.seq = NoSeq /\ get_immutable(q.target) # NoValue
        THEN [reply EXCEPT !.v = get_immutable(q.target)]
        ELSE IF mutable_item # NoItem /\ ~ItemOmitted(q.seq, mutable_item)
        THEN [reply EXCEPT !.k = PublicKey(q.target), !.seq = mutable_item.seq,
                           !.sig = ItemSignature(q.target, mutable_item),
                           !.v = mutable_item.v]
        ELSE reply

\* The datagram handle_query sends back.
QueryReply(store, q) ==
    CASE q.q = NoValue -> send_error(q.t, ErrProtocol, "Missing field 'q'")
      [] q.q = "ping" -> send_reply(q.t, NoResult)
      [] q.q = "find_node" ->
            send_reply(q.t, [NoResult EXCEPT
                                 !.nodes = find_closest_routing_nodes(q.target)])
      [] q.q = "get" -> send_reply(q.t, GetReply(store, q))

\* query_find_node and the other query_* functions on the reply that
\* send_query_await_reply returned: y must be "r" and the result is the
\* dictionary under "r".
ReplyResult(reply) ==
    IF reply.y = "r" /\ "r" \in DOMAIN reply THEN reply.r ELSE NoResult

InitQuery == handled = NoHandled

\* handle_query(sender, query) with query["q"] "ping", "find_node", "get" or
\* missing.
HandleQuery(q) ==
    /\ handled' = [query |-> q,
                   item |-> IF q.q = "get" THEN get_mutable(dataStore, q.target)
                            ELSE NoItem,
                   datagram |-> QueryReply(dataStore, q)]
    /\ lastPut' = NoPut
    /\ UNCHANGED dataStore
    /\ UNCHANGED notInboundVars

ReceiveQuery == \E q \in InboundQueries : HandleQuery(q)

NextQuery == ReceivePut \/ ReceiveQuery

(***************************************************************************)
(* Inbound writes: DhtNode::handle_query for announce_peer and for the put *)
(* of an immutable item                                                    *)
(***************************************************************************)

\* RESPONSIBLE_TRACKERS_PER_SWARM * 4: how many of the closest routing nodes
\* the responsibility check looks at.
MaxClosest == 2

\* Distances to the target: this node's own, and those of the contacts the
\* routing table may hold (MaxClosest closer ones and one farther one).
SelfDistance == MaxClosest + 1
ContactDistances == (1..MaxClosest) \cup {SelfDistance + 1}

\* BEP-44: "Argument 'v' too big".
ErrTooBig == 205

\* The bound the size of the bencoded value is compared with.
ValueSizeLimit == 1000

ValueSizes == {ValueSizeLimit - 1, ValueSizeLimit, ValueSizeLimit + 1}
Addresses == {"ipA", "ipB"}
Ports == {6881, 6882}
InfoHash == "infohash"
NoImpliedPort == -1

\* _routing_table->find_closest_routing_nodes(target, count): the `count`
\* contacts of the table closest to the target.
find_closest(table, count) ==
    {d \in table : Cardinality({c \in table : c < d}) < count}

\* The loop over closer_nodes: contains_self becomes true when this node is
\* closer to the target than one of the nodes found.
contains_self(table) ==
    \E i \in find_closest(table, MaxClosest) : SelfDistance < i

\* _tracker->verify_token(address, id, token).
verify_token_Any(address, id, token) == TRUE
verify_token(address, id, token) == token = generate_token(address, id)

\* bencoding_encode(value).size() >= 1000.
ValueTooBig(size) == size >= ValueSizeLimit

\* effective_port of announce_peer.
effective_port(q) ==
    IF q.implied_port # NoImpliedPort /\ q.implied_port = 1
    THEN q.sender_port ELSE q.port

AnnounceQueries ==
    [q : {"announce_peer"}, address : Addresses, sender_port : Ports,
     port : Ports, implied_port : {NoImpliedPort, 0, 1},
     token : {generate_token(a, InfoHash) : a \in Addresses}]

ImmutablePuts ==
    [q : {"put"}, address : Addresses, size : ValueSizes,
     token : {generate_token(a, ValueSizeLimit - 1) : a \in Addresses}]

\* The error code handle_query answers an announce_peer with, or ReplyOk.
AnnounceReply(q, table) ==
    IF ~contains_self(table) THEN ErrNotResponsible
    ELSE IF ~verify_token(q.address, InfoHash, q.token) THEN ErrProtocol
    ELSE ReplyOk

\* The error code handle_query answers the put of an immutable item with, or
\* ReplyOk.  The target of the item is the hash of its value; a value is
\* told by its size here.
ImmutablePutReply(q, table) ==
    IF ValueTooBig(q.size) THEN ErrTooBig
    ELSE IF ~verify_token(q.address, q.size, q.token) THEN ErrProtocol
    ELSE IF ~contains_self(table) THEN ErrNotResponsible
    ELSE ReplyOk

NoWrite == [q |-> "none"]

InitTracker ==
    /\ routing = {}
    /\ swarm = {}
    /\ immutables = {}
    /\ lastWrite = NoWrite

\* RoutingTable::try_add_node and fail_node as handle_query and
\* send_query_await_reply call them.
TryAddNode(d) ==
    /\ d \notin routing
    /\ routing' = routing \cup {d}
    /\ lastWrite' = NoWrite
    /\ UNCHANGED <<swarm, immutables>>
    /\ UNCHANGED notTrackerVars

FailNode(d) ==
    /\ d \in routing
    /\ routing' = routing \ {d}
    /\ lastWrite' = NoWrite
    /\ UNCHANGED <<swarm, immutables>>
    /\ UNCHANGED notTrackerVars

\* handle_query, query_type == "announce_peer".
HandleAnnouncePeer(q) ==
    LET reply == AnnounceReply(q, routing) IN
    /\ swarm' = IF reply = ReplyOk
                THEN swarm \cup {[address |-> q.address, port |-> effective_port(q)]}
                ELSE swarm
    /\ lastWrite' = [q |-> q.q, query |-> q, reply |-> reply, swarm |-> swarm]
    /\ UNCHANGED <<routing, immutables>>
    /\ UNCHANGED notTrackerVars

\* handle_query, query_type == "put" without a public key.
HandlePutImmutable(q) ==
    LET reply == ImmutablePutReply(q, routing) IN
    /\ immutables' = IF reply = ReplyOk THEN immutables \cup {q.size}
                     ELSE immutables
    /\ lastWrite' = [q |-> q.q, query |-> q, reply |-> reply, stored |-> immutables]
    /\ UNCHANGED <<routing, swarm>>
    /\ UNCHANGED notTrackerVars

RoutingChange == \E d \in ContactDistances : TryAddNode(d) \/ FailNode(d)
ReceiveAnnouncePeer == \E q \in AnnounceQueries : HandleAnnouncePeer(q)
ReceivePutImmutable == \E q \in ImmutablePuts : HandlePutImmutable(q)

NextTracker == RoutingChange \/ ReceiveAnnouncePeer \/ ReceivePutImmutable

(***************************************************************************)
(* Reply statistics and the timeout of an outbound query: Stat and         *)
(* DhtNode::send_query_await_reply                                         *)
(***************************************************************************)

\* Durations are in milliseconds.
WindowSize == 10
MinSamples == 5
DefaultMaxReplyWait == 3000
QueryTimeout == 10000
NoDuration == -1

\* The reply latencies of the model and the time a caller's watchdog has left.
ReplyTimes == {20, 40}
WatchDogTimes == {NoDuration, 50, 20000}

RECURSIVE SumOver(_, _)
SumOver(f, n) == IF n = 0 THEN 0 ELSE f[n] + SumOver(f, n - 1)

\* Stat::add_reply_time: the rolling window keeps the last WindowSize samples.
add_reply_time(w, d) ==
    IF Len(w) < WindowSize THEN Append(w, d) ELSE Append(Tail(w), d)

\* Stat::mean_plus_deviation, truncated to whole milliseconds as
\* seconds_to_duration does: the largest k with
\* k <= rolling_mean + multiply * sqrt(rolling_variance), the variance being
\* the unbiased one, (n * sum(x^2) - sum(x)^2) / (n * (n - 1)).
mean_plus_deviation(w, multiply) ==
    LET n == Len(w)
        s == SumOver(w, n)
        q == n * SumOver([i \in 1..n |-> w[i] * w[i]], n) - s * s
        Above(k) == /\ k * n > s
                    /\ (k * n - s) * (k * n - s) * (n - 1) > multiply * multiply * q * n
        hi == CHOOSE x \in {w[i] : i \in 1..n} : \A i \in 1..n : w[i] <= x
        lo == CHOOSE x \in {w[i] : i \in 1..n} : \A i \in 1..n : w[i] >= x
    IN  IF n < MinSamples THEN NoDuration
        ELSE CHOOSE k \in 0..(hi + multiply * (hi - lo) + 1) : ~Above(k) /\ Above(k + 1)

\* Stat::max_reply_wait_time.
max_reply_wait_time(w) ==
    LET ov == mean_plus_deviation(w, 3)
    IN  IF ov = NoDuration THEN DefaultMaxReplyWait
        ELSE IF ov < DefaultMaxReplyWait THEN ov ELSE DefaultMaxReplyWait

IdleTimed == [state |-> "idle"]

InitTimeout ==
    /\ window = <<>>
    /\ oq = IdleTimed

\* send_query_await_reply up to the wait: the caller's watchdog, if there is
\* one, is extended to the adaptive time; the query's own timer gets the
\* fixed timeout.
SendTimedQuery(d1) ==
    /\ oq.state = "idle"
    /\ oq' = [state |-> "waiting", timer |-> QueryTimeout,
              dms |-> IF d1 = NoDuration THEN NoDuration
                      ELSE IF d1 > max_reply_wait_time(window) THEN d1
                      ELSE max_reply_wait_time(window)]
    /\ UNCHANGED window
    /\ UNCHANGED notTimeoutVars

\* The reply arrives after d: the callback cancels the timer and the
\* coroutine records the reply time.
ReplyAfter(d) ==
    /\ oq.state = "waiting"
    /\ d < oq.timer
    /\ oq.dms = NoDuration \/ d < oq.dms
    /\ oq' = [state |-> "replied", waited |-> d]
    /\ window' = add_reply_time(window, d)
    /\ UNCHANGED notTimeoutVars

\* No reply: timeout_timer's handler sets timed_out.
QueryTimerFires ==
    /\ oq.state = "waiting"
    /\ oq.dms = NoDuration \/ oq.timer <= oq.dms
    /\ oq' = [state |-> "timed_out", waited |-> oq.timer]
    /\ UNCHANGED window
    /\ UNCHANGED notTimeoutVars

\* No reply: the caller's watchdog expires first and cancels the query.
WatchDogFires ==
    /\ oq.state = "waiting"
    /\ oq.dms # NoDuration /\ oq.dms < oq.timer
    /\ oq' = [state |-> "operation_aborted", waited |-> oq.dms]
    /\ UNCHANGED window
    /\ UNCHANGED notTimeoutVars

TimedQueryReturns ==
    /\ oq.state \in {"replied", "timed_out", "operation_aborted"}
    /\ oq' = IdleTimed
    /\ UNCHANGED window
    /\ UNCHANGED notTimeoutVars

StartTimedQuery == \E d1 \in WatchDogTimes : SendTimedQuery(d1)
TimedReply == \E d \in ReplyTimes : ReplyAfter(d)

NextTimeout ==
    \/ StartTimedQuery \/ TimedReply \/ QueryTimerFires \/ WatchDogFires
    \/ TimedQueryReturns

(***************************************************************************)
(* Transaction strings: DhtNode::new_transaction_string                    *)
(***************************************************************************)

\* Bits in a byte of the model; _next_transaction_id is a uint32_t of
\* CounterBytes bytes and wraps to 0 after CounterRange - 1.
ByteBits == 2
ByteRange == 2 ^ ByteBits
CounterBytes == 4
CounterRange == ByteRange ^ CounterBytes

\* The loop of new_transaction_string: the low byte of transaction_id is
\* appended, transaction_id is shifted right by one byte, until it is 0.
RECURSIVE AppendBytes(_)
AppendBytes(transaction_id) ==
    IF transaction_id = 0 THEN <<>>
    ELSE <<transaction_id % ByteRange>> \o AppendBytes(transaction_id \div ByteRange)

\* The string new_transaction_string returns for a value of the counter.
transaction_string_HighFirst(transaction_id) ==
    LET s == AppendBytes(transaction_id)
    IN  IF transaction_id = 0 THEN <<0>>
        ELSE [i \in 1..Len(s) |-> s[Len(s) + 1 - i]]
transaction_string(transaction_id) ==
    IF transaction_id = 0 THEN <<0>> ELSE AppendBytes(transaction_id)

InitTransaction ==
    /\ txCounter = FirstTid
    /\ txString = <<>>
    /\ txLast = 0

\* new_transaction_string: uint32_t transaction_id = _next_transaction_id++.
NewTransactionString ==
    /\ txCounter' = (txCounter + 1) % CounterRange
    /\ txLast' = txCounter
    /\ txString' = transaction_string(txCounter)
    /\ UNCHANGED notTransactionVars

NextTransaction == NewTransactionString

(***************************************************************************)
(* DhtNode::data_get_mutable                                               *)
(***************************************************************************)

\* How many replies one search processes at most.
MaxProbes == 3

\* The item asked for: public key pkA with its salt.
GetKey == "pkA.salt"

\* The "sig" of a reply: missing, not 64 bytes long, or the signature some
\* key holder made over (seq, v).
NoSignature == [k |-> NoValue, seq |-> NoSeq, v |-> NoValue]
ShortSignature == [k |-> "short", seq |-> NoSeq, v |-> NoValue]
Signatures ==
    {NoSignature, ShortSignature} \cup [k : {"pkA"}, seq : Seqs, v : Values]

\* What query_get_data2 returns for a candidate: no response, or the reply's
\* k, seq, v and sig.
NoResponse == [k |-> NoValue, seq |-> NoSeq, v |-> NoValue, sig |-> NoSignature]
GetResponses ==
    {NoResponse} \cup
    [k : {"pkA", "pkB"}, seq : Seqs \cup {NoSeq}, v : Values, sig : Signatures]

NoData == [seq |-> NoSeq, v |-> NoValue, sig |-> NoSignature]

\* MutableDataItem::verify for an item made with public_key and salt.
item_verify(item) == item.sig = ItemSignature(GetKey, item)

\* The reply gives an item that verifies.
GivesItem(response) ==
    /\ response # NoResponse
    /\ response.k = PublicKey(GetKey)
    /\ response.seq # NoSeq
    /\ response.sig \notin {NoSignature, ShortSignature}
    /\ item_verify([seq |-> response.seq, v |-> response.v, sig |-> response.sig])

\* !data || *sequence_number > data->sequence_number.
Newer_Any(sequence_number, data) == TRUE
Newer(sequence_number, data) ==
    data = NoData \/ sequence_number > data.seq

\* ec == operation_aborted && !cancel && data: only the internal cancel fired.
OnlyInternalCancel(g) ==
    g.ec = "operation_aborted" /\ ~g.cancel /\ g.data # NoData

IdleGet ==
    [state |-> "idle", data |-> NoData, cancel_wd |-> FALSE, cancel |-> FALSE,
     ec |-> "ok", cause |-> "none", probes |-> 0, first |-> NoSeq, best |-> NoSeq]

InitGet == gm = IdleGet

\* data_get_mutable up to the call of collect.
StartGetMutable ==
    /\ gm.state = "idle"
    /\ gm' = [IdleGet EXCEPT !.state = "collecting"]
    /\ UNCHANGED notGetVars

\* The Evaluate callback of data_get_mutable for one candidate, from the
\* return of query_get_data2 on.
EvaluateGet(response) ==
    /\ gm.state = "collecting"
    /\ gm.probes < MaxProbes
    /\ LET item == [seq |-> response.seq, v |-> response.v, sig |-> response.sig]
           taken == /\ GivesItem(response)
                    /\ Newer(response.seq, gm.data)
           valid == /\ response.k = "pkA" /\ response.seq # NoSeq
                    /\ response.sig = [k |-> "pkA", seq |-> response.seq,
                                       v |-> response.v]
       IN  gm' = [gm EXCEPT
                    !.probes = @ + 1,
                    !.data = IF taken THEN item ELSE @,
                    !.cancel_wd = @ \/ taken,
                    !.first = IF valid /\ @ = NoSeq THEN response.seq ELSE @,
                    !.best = IF valid /\ response.seq > @ THEN response.seq ELSE @]
    /\ UNCHANGED notGetVars

\* collect ends: no candidate is left, the 5-second watchdog cancel_wd has
\* expired, the caller has fired cancel, or the node is being destroyed.
CollectEnds(cause) ==
    /\ gm.state = "collecting"
    /\ cause = "watchdog" => gm.cancel_wd
    /\ gm' = [gm EXCEPT
                !.state = "collected",
                !.cause = cause,
                !.cancel = (cause = "cancel"),
                !.ec = IF cause = "exhausted" THEN "ok" ELSE "operation_aborted"]
    /\ UNCHANGED notGetVars

\* data_get_mutable after collect.
GetMutableReturns ==
    /\ gm.state = "collected"
    /\ gm' = [gm EXCEPT
                !.state = "returned",
                !.ec = IF OnlyInternalCancel(gm) THEN "ok" ELSE @]
    /\ UNCHANGED notGetVars

ProbeGet == \E response \in GetResponses : EvaluateGet(response)
SearchEnds ==
    \E cause \in {"exhausted", "watchdog", "cancel", "terminated"} : CollectEnds(cause)

NextGet == StartGetMutable \/ ProbeGet \/ SearchEnds \/ GetMutableReturns

(***************************************************************************)
(* MultiPeerReader (cache/multi_peer_reader.h)                             *)
(***************************************************************************)

\* The blocks of the response being fetched.
FetchBlocks == 3

Peers == {"peer1", "peer2", "peer3"}

\* _reference_hash_list: the data each block must hash to; a hash is told by
\* the data it was made of.
reference_hash_list == [b \in 0..(FetchBlocks - 1) |-> b + 1]

\* The bytes a peer returned for a block match the hash list.
BlockVerifies(block_id, bytes) == bytes = reference_hash_list[block_id]

\* MultiPeerReader::unmark_as_good.
unmark_as_good_Keep(good, peer) == good
unmark_as_good(good, peer) == good \ {peer}

InitMulti ==
    /\ mp = [good |-> Peers, pending |-> {}, block_id |-> 0, state |-> "active"]
    /\ mpOut = <<>>
    /\ mpBad = {}

\* fetch_block: a request for the block goes to a good peer.
RequestBlock(peer) ==
    /\ mp.state = "active"
    /\ peer \in mp.good \ mp.pending
    /\ mp' = [mp EXCEPT !.pending = @ \cup {peer}]
    /\ UNCHANGED <<mpOut, mpBad>>
    /\ UNCHANGED notMultiVars

\* fetch_block: a peer's bytes arrive (0 stands for bytes that are no block
\* of the response).  Bytes that verify give the block to
\* the caller and cancel the other requests; bytes that do not verify unmark
\* the peer.
BlockArrives(peer, bytes) ==
    /\ mp.state = "active"
    /\ peer \in mp.pending
    /\ IF BlockVerifies(mp.block_id, bytes)
       THEN /\ mpOut' = Append(mpOut, [bytes |-> bytes, peer |-> peer])
            /\ mp' = [mp EXCEPT
                        !.pending = {},
                        !.block_id = @ + 1,
                        !.state = IF mp.block_id + 1 = FetchBlocks
                                  THEN "done" ELSE "active"]
            /\ UNCHANGED mpBad
       ELSE /\ mp' = [mp EXCEPT
                        !.pending = @ \ {peer},
                        !.good = unmark_as_good(@, peer),
                        !.state = IF unmark_as_good(mp.good, peer) = {}
                                  THEN "closed" ELSE "active"]
            /\ mpBad' = mpBad \cup {peer}
            /\ UNCHANGED mpOut
    /\ UNCHANGED notMultiVars

AskPeer == \E peer \in Peers : RequestBlock(peer)
PeerAnswers ==
    \E peer \in Peers, bytes \in 0..FetchBlocks :
        BlockArrives(peer, bytes)

NextMulti == AskPeer \/ PeerAnswers

(***************************************************************************)
(* DhtNode::bootstrap                                                      *)
(***************************************************************************)

\* The bootstrap servers; an endpoint is named by the domain it resolves
\* from.  The nodes the lookup of the own id may reach have ids; one of them
\* listens at a bootstrap server's endpoint.
Bootstraps ==
    {"router.bittorrent.com", "router.utorrent.com", "router.transmissionbt.com"}
LookupContacts ==
    {[id |-> "idA", endpoint |-> "epA"],
     [id |-> "idB", endpoint |-> "router.utorrent.com"]}

\* What bootstrap_single can end with: the pair of endpoints, a failed
\* resolve, a ping without reply, a reply without a usable "ip", or the
\* node's destruction.
SingleOutcomes ==
    {"ok", "host_not_found", "timed_out", "fault", "operation_aborted"}

\* _bootstrap_endpoints.push_back(bootstrap_ep).
push_back_Nothing(endpoints, ep) == endpoints
push_back(endpoints, ep) == endpoints \cup {ep}

InitBoot ==
    boot = [state |-> "sweep", tried |-> {}, done |-> FALSE, answered |-> NoValue,
            has_table |-> FALSE, routing_table |-> {}, bootstrap_endpoints |-> {},
            ready |-> FALSE, ec |-> "ok"]

\* One turn of the loop over the shuffled bootstraps: bootstrap_single.
BootstrapSingle(bs, outcome) ==
    /\ boot.state = "sweep"
    /\ bs \notin boot.tried
    /\ boot' =
         IF outcome = "operation_aborted"
         THEN [boot EXCEPT !.state = "failed", !.ec = outcome]
         ELSE IF outcome = "ok"
         THEN [boot EXCEPT !.state = "sleep", !.done = TRUE, !.answered = bs]
         ELSE [boot EXCEPT !.tried = @ \cup {bs},
                           !.state = IF boot.tried \cup {bs} = Bootstraps
                                     THEN "sleep" ELSE "sweep"]
    /\ UNCHANGED notBootVars

\* async_sleep after the sweep, and when the sweep was successful the node
\* id, the routing table and the bootstrap endpoint, up to the call of
\* find_closest_nodes.
SweepSleep(slept) ==
    /\ boot.state = "sleep"
    /\ boot' =
         IF ~slept THEN [boot EXCEPT !.state = "failed", !.ec = "operation_aborted"]
         ELSE IF ~boot.done THEN [boot EXCEPT !.state = "sweep", !.tried = {}]
         ELSE [boot EXCEPT
                 !.state = "lookup",
                 !.has_table = TRUE,
                 !.routing_table = {},
                 !.bootstrap_endpoints = push_back(@, boot.answered)]
    /\ UNCHANGED notBootVars

\* find_closest_nodes(_node_id): a query to a contact with an id returns in
\* send_query_await_reply, which records a failure or tries to add the
\* contact (the table may be full).  Contacts without id, such as the
\* bootstrap endpoint, are not recorded.
LookupQueryReturns(contact, replied, added) ==
    /\ boot.state = "lookup"
    /\ boot' = [boot EXCEPT !.routing_table =
                  IF ~replied THEN @ \ {contact}
                  ELSE IF added THEN @ \cup {contact} ELSE @]
    /\ UNCHANGED notBootVars

\* find_closest_nodes returns; bootstrap sets _ready unless it failed.
LookupReturns(ec) ==
    /\ boot.state = "lookup"
    /\ boot' = IF ec # "ok" THEN [boot EXCEPT !.state = "failed", !.ec = ec]
               ELSE [boot EXCEPT !.state = "ready", !.ready = TRUE]
    /\ UNCHANGED notBootVars

TryBootstrap ==
    \E bs \in Bootstraps, outcome \in SingleOutcomes : BootstrapSingle(bs, outcome)
SleepOver == \E slept \in BOOLEAN : SweepSleep(slept)
LookupStep ==
    \E contact \in LookupContacts, replied \in BOOLEAN, added \in BOOLEAN :
        LookupQueryReturns(contact, replied, added)
LookupOver == \E ec \in {"ok", "operation_aborted"} : LookupReturns(ec)

NextBoot == TryBootstrap \/ SleepOver \/ LookupStep \/ LookupOver

(***************************************************************************)
(* DhtNode::send_write_query                                               *)
(***************************************************************************)

TRIES == 3

\* How one send_query_await_reply can end: with a reply message of type "r"
\* or "e", or with an error code.
AttemptOutcomes == {"r", "e", "timed_out", "network_down", "operation_aborted"}

\* The error code send_query_await_reply returns: none once the reply
\* callback has run, whatever the type of the message.
AttemptError(outcome) == IF outcome \in {"r", "e"} THEN "ok" ELSE outcome

IdleWriteQuery ==
    [state |-> "idle", destination |-> NoValue, query_type |-> NoValue,
     i |-> 0, ec |-> "ok", attempts |-> <<>>]

InitWriteQuery == wq = IdleWriteQuery

SendWriteQuery(destination, query_type) ==
    /\ wq.state = "idle"
    /\ wq' = [IdleWriteQuery EXCEPT !.state = "loop", !.destination = destination,
                                    !.query_type = query_type]
    /\ UNCHANGED notWriteQueryVars

\* One turn of the loop: send_query_await_reply, then break on
\* operation_aborted and on no error.
WriteAttempt(outcome) ==
    /\ wq.state = "loop"
    /\ wq.i < TRIES
    /\ LET ec == AttemptError(outcome)
           stop == ec = "operation_aborted" \/ ec = "ok" \/ wq.i + 1 = TRIES
       IN  wq' = [wq EXCEPT !.attempts = Append(@, outcome),
                            !.ec = ec,
                            !.i = IF ec \in {"operation_aborted", "ok"} THEN @ ELSE @ + 1,
                            !.state = IF stop THEN "returned" ELSE "loop"]
    /\ UNCHANGED notWriteQueryVars

WriteQueryDone ==
    /\ wq.state = "returned"
    /\ wq' = IdleWriteQuery
    /\ UNCHANGED notWriteQueryVars

StartWriteQuery ==
    \E destination \in RoutingContacts, query_type \in {"announce_peer", "put"} :
        SendWriteQuery(destination, query_type)
AttemptEnds == \E outcome \in AttemptOutcomes : WriteAttempt(outcome)

NextWriteQuery == StartWriteQuery \/ AttemptEnds \/ WriteQueryDone

(***************************************************************************)
(* MainlineDht::tracker_announce                                           *)
(***************************************************************************)

\* What DhtNode::tracker_announce of one node gives its child coroutine: an
\* error, or the peers its search found in the swarm.
AnnounceResults ==
    [ec : {"ok"}, peers : {{}, {"peerX"}, {"peerX", "peerY"}}]
        \cup [ec : {"timed_out", "operation_aborted"}, peers : {{}}]

\* if (peers.size()) lock.release(true).
ReleasesSuccess(result) == result.ec = "ok" /\ result.peers # {}

InitAnnounce ==
    ta = [pc |-> "idle", child |-> [n \in DhtNodes |-> "none"], output |-> {},
          announced |-> {}, success |-> FALSE, cancelled |-> FALSE, ec |-> "ok"]

\* tracker_announce up to wait_for_success: one coroutine for each node.
CallAnnounce ==
    /\ ta.pc = "idle"
    /\ ta' = [ta EXCEPT !.pc = "wait_for_success",
                        !.child = [n \in DhtNodes |-> "running"]]
    /\ UNCHANGED notAnnounceVars

\* The child coroutine of a node after the node's tracker_announce; what a
\* child does after the operation has returned no longer reaches the caller.
AnnounceChildReturns(n, result) ==
    /\ ta.pc \in {"wait_for_success", "returned"}
    /\ ta.child[n] = "running"
    /\ ta' = IF ta.pc = "returned"
             THEN [ta EXCEPT !.child[n] = "late"]
             ELSE [ta EXCEPT
                     !.child[n] = IF result.ec # "ok" THEN "failed"
                                  ELSE IF result.peers = {} THEN "no_peers"
                                  ELSE "peers",
                     !.announced = IF result.ec = "ok" THEN @ \cup {n} ELSE @,
                     !.output = IF result.ec = "ok" THEN @ \cup result.peers ELSE @,
                     !.success = @ \/ ReleasesSuccess(result)]
    /\ UNCHANGED notAnnounceVars

\* The caller's cancel signal or MainlineDht::_cancel fires: condition.cancel().
AnnounceCancelled ==
    /\ ta.pc = "wait_for_success"
    /\ ~ta.cancelled
    /\ ta' = [ta EXCEPT !.cancelled = TRUE]
    /\ UNCHANGED notAnnounceVars

\* wait_for_success returns and tracker_announce with it.
AnnounceReturns ==
    /\ ta.pc = "wait_for_success"
    /\ ta.success \/ ta.cancelled \/ \A n \in DhtNodes : ta.child[n] # "running"
    /\ ta' = [ta EXCEPT !.pc = "returned",
                        !.ec = FanResult("tracker_announce", ta.success, ta.cancelled)]
    /\ UNCHANGED notAnnounceVars

AnnounceChildFinishes ==
    \E n \in DhtNodes, result \in AnnounceResults : AnnounceChildReturns(n, result)

NextAnnounce ==
    CallAnnounce \/ AnnounceChildFinishes \/ AnnounceCancelled \/ AnnounceReturns

(***************************************************************************)
(* Bep5 announcers (bittorrent/bep5_announcer.cpp)                         *)
(***************************************************************************)

\* How many announces one announcer of the model starts at most.
MaxAnnounces == 2

NoAnnouncer ==
    [type |-> "none", pc |-> "none", cancel |-> FALSE, go_again |-> FALSE,
     dht |-> TRUE, announces |-> 0, late |-> FALSE]

InitAnnouncer == an = NoAnnouncer

\* Bep5PeriodicAnnouncer / Bep5ManualAnnouncer: the constructor makes the Impl
\* and start() spawns the loop.
NewAnnouncer(type) ==
    /\ an.pc = "none"
    /\ an' = [NoAnnouncer EXCEPT !.type = type, !.pc = "top"]
    /\ UNCHANGED notAnnouncerVars

\* loop from dht_w.lock() to the call of tracker_announce; `late` records an
\* announce started with the cancel signal already fired.
LockAndAnnounce(a) ==
    IF ~a.dht THEN [a EXCEPT !.pc = "exit"]
    ELSE [a EXCEPT !.pc = "announcing", !.announces = @ + 1,
                   !.late = @ \/ a.cancel]

\* while (!cancel): the head of the loop, down to the first suspension.
LoopHead ==
    /\ an.pc = "top"
    /\ an.announces < MaxAnnounces
    /\ an' = IF an.cancel THEN [an EXCEPT !.pc = "exit"]
             ELSE IF an.type = "Manual" /\ ~an.go_again
             THEN [an EXCEPT !.pc = "cv_wait"]
             ELSE LockAndAnnounce([an EXCEPT !.go_again = FALSE])
    /\ UNCHANGED notAnnouncerVars

\* cv.wait(cancel, yield) returns, after update() or after the cancel: the
\* inner loop is left on cancel and on go_again, and the announce follows.
CvWaitReturns ==
    /\ an.pc = "cv_wait"
    /\ an.cancel \/ an.go_again
    /\ an' = LockAndAnnounce([an EXCEPT !.go_again = FALSE])
    /\ UNCHANGED notAnnouncerVars

\* tracker_announce returns.
TrackerAnnounceReturns(ec) ==
    /\ an.pc = "announcing"
    /\ an' = IF an.cancel THEN [an EXCEPT !.pc = "exit"]
             ELSE IF ec # "ok" THEN [an EXCEPT !.pc = "error_sleep"]
             ELSE [an EXCEPT !.pc = "sleep"]
    /\ UNCHANGED notAnnouncerVars

\* async_sleep returns, after the time or after the cancel.
SleepReturns ==
    /\ an.pc \in {"error_sleep", "sleep"}
    /\ an' = IF an.pc = "error_sleep" /\ an.cancel THEN [an EXCEPT !.pc = "exit"]
             ELSE [an EXCEPT !.pc = "top"]
    /\ UNCHANGED notAnnouncerVars

\* ~Bep5PeriodicAnnouncer / ~Bep5ManualAnnouncer: _impl->cancel().
DestroyAnnouncer ==
    /\ an.pc # "none"
    /\ ~an.cancel
    /\ an' = [an EXCEPT !.cancel = TRUE]
    /\ UNCHANGED notAnnouncerVars

\* Bep5AnnouncerImpl::update.
UpdateAnnouncer ==
    /\ an.pc # "none"
    /\ ~an.cancel
    /\ an.type = "Manual"
    /\ ~an.go_again
    /\ an' = [an EXCEPT !.go_again = TRUE]
    /\ UNCHANGED notAnnouncerVars

\* The MainlineDht behind dht_w is destroyed.
DhtExpires ==
    /\ an.pc \notin {"none", "announcing"}
    /\ an.dht
    /\ an' = [an EXCEPT !.dht = FALSE]
    /\ UNCHANGED notAnnouncerVars

ConstructAnnouncer == \E type \in {"Periodic", "Manual"} : NewAnnouncer(type)
AnnounceOver == \E ec \in {"ok", "network_unreachable"} : TrackerAnnounceReturns(ec)

NextAnnouncer ==
    \/ ConstructAnnouncer \/ LoopHead \/ CvWaitReturns \/ AnnounceOver
    \/ SleepReturns \/ DestroyAnnouncer \/ UpdateAnnouncer \/ DhtExpires

(***************************************************************************)
(* DhtLookup (cache/bep5_http/client.cpp)                                  *)
(***************************************************************************)

\* Last minute of the steady clock that the model reaches.
MaxNow == 6

\* Result::is_fresh: time + 5min >= Clock::now(); WatchDog of a job: 5 minutes.
FreshMinutes == 5
LookupWatchDogMinutes == 5

GetCallers == {1, 2}

TcpPeers == {[proto |-> "tcp", address |-> "a1", port |-> 1],
             [proto |-> "tcp", address |-> "a2", port |-> 2]}

\* What tracker_get_peers can return to a job without an error.
LookupFinds == {{CHOOSE e \in TcpPeers : e.port = 1}, TcpPeers}

tcp_to_udp(eps) ==
    {[proto |-> "udp", address |-> e.address, port |-> e.port] : e \in eps}

\* Result::is_fresh, always false for a result with an error.
is_fresh_NoAge(r, clock) == r.ec = "ok"
is_fresh(r, clock) == r.ec = "ok" /\ r.time + FreshMinutes >= clock

\* A DhtLookup after construction: Result{ec = no_data}, no job.
NewLookup ==
    [alive |-> TRUE, job |-> FALSE, running |-> 0, job_start |-> 0,
     last_result |-> [ec |-> "no_data", value |-> {}, time |-> 0], now |-> 0]

IdleGetter ==
    [pc |-> "idle", ec |-> "none", value |-> {}, waited |-> FALSE,
     job_failed |-> FALSE, prev_ok |-> FALSE, prev_old |-> FALSE]

InitLookup == lookup = NewLookup /\ getters = [c \in GetCallers |-> IdleGetter]

\* DhtLookup::get up to its first return or suspension.  prev_ok and prev_old
\* record the previous result as the caller found it.
LookupGet(c) ==
    /\ lookup.alive
    /\ getters[c].pc = "idle"
    /\ lookup' = IF lookup.job THEN lookup
                 ELSE [lookup EXCEPT !.job = TRUE, !.running = @ + 1,
                                     !.job_start = lookup.now]
    /\ getters' = [getters EXCEPT ![c] =
          [IdleGetter EXCEPT
              !.prev_ok = lookup.last_result.ec = "ok",
              !.prev_old = lookup.now - lookup.last_result.time > FreshMinutes,
              !.pc = IF is_fresh(lookup.last_result, lookup.now)
                     THEN "done" ELSE "waiting",
              !.ec = IF is_fresh(lookup.last_result, lookup.now)
                     THEN "ok" ELSE "none",
              !.value = IF is_fresh(lookup.last_result, lookup.now)
                        THEN lookup.last_result.value ELSE {}]]
    /\ UNCHANGED notLookupVars

\* get after cv.wait returned on the notification of the job:
\* or_throw(y, last_result.ec, last_result.value).
WaiterReturns(g, r, failed) ==
    IF g.pc # "waiting" THEN g
    ELSE [g EXCEPT !.pc = "done", !.waited = TRUE, !.job_failed = failed,
                   !.ec = r.ec,
                   !.value = IF r.ec = "ok" THEN r.value ELSE {}]

\* The job's coroutine from the return of tracker_get_peers to on_exit:
\* the result is stored only if (!c && !ec); cv.notify() wakes every waiter.
LookupJobEnds(outcome, eps) ==
    /\ lookup.alive /\ lookup.job
    /\ outcome = "watchdog" =>
          lookup.now - lookup.job_start >= LookupWatchDogMinutes
    /\ LET r == IF outcome = "ok"
                THEN [ec |-> "ok", value |-> tcp_to_udp(eps),
                      time |-> lookup.now]
                ELSE lookup.last_result
       IN /\ lookup' = [lookup EXCEPT !.last_result = r, !.job = FALSE,
                                      !.running = @ - 1]
          /\ getters' = [c \in GetCallers |->
                            WaiterReturns(getters[c], r, outcome # "ok")]
    /\ UNCHANGED notLookupVars

\* The caller's own cancel signal fires while it waits: cv.wait returns
\* operation_aborted and return_or_throw_on_error returns it.
GetterCancelled(c) ==
    /\ getters[c].pc = "waiting"
    /\ getters' = [getters EXCEPT ![c] =
          [@ EXCEPT !.pc = "done", !.waited = TRUE,
                    !.ec = "operation_aborted"]]
    /\ UNCHANGED <<lookup>>
    /\ UNCHANGED notLookupVars

\* The caller takes its result and may call again.
GetterLeaves(c) ==
    /\ getters[c].pc = "done"
    /\ getters' = [getters EXCEPT ![c] = IdleGetter]
    /\ UNCHANGED <<lookup>>
    /\ UNCHANGED notLookupVars

\* One minute passes on the steady clock.
LookupMinutePasses ==
    /\ lookup.now < MaxNow
    /\ lookup' = [lookup EXCEPT !.now = @ + 1]
    /\ UNCHANGED <<getters>>
    /\ UNCHANGED notLookupVars

\* ~DhtLookup: lifetime_cancel() cancels every call and the job, whose
\* on_exit then leaves the object alone.
DestroyLookup ==
    /\ lookup.alive
    /\ lookup' = [lookup EXCEPT !.alive = FALSE, !.job = FALSE, !.running = 0]
    /\ getters' = [c \in GetCallers |->
          IF getters[c].pc = "waiting"
          THEN [getters[c] EXCEPT !.pc = "done", !.waited = TRUE,
                                  !.ec = "operation_aborted"]
          ELSE getters[c]]
    /\ UNCHANGED notLookupVars

CallLookupGet == \E c \in GetCallers : LookupGet(c)
JobEnds ==
    \E outcome \in {"ok", "dht_error", "watchdog"}, eps \in LookupFinds :
        LookupJobEnds(outcome, eps)
CancelGetter == \E c \in GetCallers : GetterCancelled(c)
LeaveGetter == \E c \in GetCallers : GetterLeaves(c)

NextLookup ==
    \/ CallLookupGet
    \/ JobEnds
    \/ CancelGetter
    \/ LeaveGetter
    \/ LookupMinutePasses
    \/ DestroyLookup

(***************************************************************************)
(* HashList::load (cache/hash_list.cpp)                                    *)
(***************************************************************************)

\* How many parts the reader delivers after the head, at most.
MaxListParts == 3

\* Sizes in bytes of the model: a signature, a SHA-512 digest and
\* MAX_LINE_SIZE_BYTES, scaled down.
ListSigSize == 2
ListHashSize == 2
MAX_LINE_SIZE_BYTES == 4

\* The line "OUINET_HASH_LIST_V1", taken as one byte of the model.
MAGIC == <<"OUINET_HASH_LIST_V1">>

ListBytes == {"OUINET_HASH_LIST_V1", "nl", "x"}

\* The data of the body parts the reader can deliver.
ListData == UNION {[1..n -> ListBytes] : n \in 1..3}

ListParts ==
    {[kind |-> k, data |-> d] : k \in {"body", "chunk_body"}, d \in ListData}
    \cup {[kind |-> k, data |-> <<>>] : k \in {"chunk_hdr", "trailer", "head"}}

\* Parser::find_nl: the position of the first newline, 0 if there is none.
find_nl(buffer) ==
    IF \E i \in 1..Len(buffer) : buffer[i] = "nl"
    THEN CHOOSE i \in 1..Len(buffer) :
            buffer[i] = "nl" /\ \A j \in 1..(i - 1) : buffer[j] # "nl"
    ELSE 0

\* Parser::read_line: the line without its newline and the buffer after it.
read_line(buffer) ==
    LET i == find_nl(buffer)
    IN IF i = 0 THEN [found |-> FALSE, value |-> <<>>, buffer |-> buffer]
       ELSE [found |-> TRUE, value |-> SubSeq(buffer, 1, i - 1),
             buffer |-> SubSeq(buffer, i + 1, Len(buffer))]

\* Parser::read_array<N>.
read_array(buffer, N) ==
    IF Len(buffer) < N THEN [found |-> FALSE, value |-> <<>>, buffer |-> buffer]
    ELSE [found |-> TRUE, value |-> SubSeq(buffer, 1, N),
          buffer |-> SubSeq(buffer, N + 1, Len(buffer))]

\* HashList::load before its first read.
NewLoad ==
    [pc |-> "read_head", ec |-> "none", buffer |-> <<>>, parts |-> 0,
     magic_checked |-> FALSE, signature |-> <<>>, hashes |-> <<>>,
     progress |-> FALSE, iterations |-> 0]

InitLoad == hl = NewLoad

LoadReturns(l, ec) == [l EXCEPT !.pc = "done", !.ec = ec]

\* The first async_read_part returns: an error, a cancellation, or a part that
\* must be a head that SignedHead::verify_and_create accepts.
LoadReadsHead(outcome, part, head_ok) ==
    /\ hl.pc = "read_head"
    /\ hl' = IF outcome = "cancel" THEN LoadReturns(hl, "operation_aborted")
             ELSE IF outcome = "error" THEN LoadReturns(hl, "read_error")
             ELSE IF part.kind # "head" THEN LoadReturns(hl, "bad_message")
             ELSE IF ~head_ok THEN LoadReturns(hl, "bad_message")
             ELSE [hl EXCEPT !.pc = "read"]
    /\ UNCHANGED notLoadVars

\* HashList::load after its loops: the list is made and verified.
LoadFinishes(l, verifies) ==
    IF l.signature = <<>> \/ l.hashes = <<>> THEN LoadReturns(l, "bad_message")
    ELSE IF ~verifies THEN LoadReturns(l, "bad_message")
    ELSE LoadReturns(l, "ok")

\* async_read_part in the outer loop returns: the end of the response, an
\* error or a cancellation, a part without body data (continue), or body data
\* that is appended to the parser, whereupon the inner loop is entered with
\* progress = false.
LoadReadsPart(outcome, part, verifies) ==
    /\ hl.pc = "read"
    /\ outcome = "part" => hl.parts < MaxListParts /\ part.kind # "head"
    /\ hl' = IF outcome = "cancel" THEN LoadReturns(hl, "operation_aborted")
             ELSE IF outcome = "error" THEN LoadReturns(hl, "read_error")
             ELSE IF outcome = "end" THEN LoadFinishes(hl, verifies)
             ELSE IF part.kind \notin {"body", "chunk_body"}
             THEN [hl EXCEPT !.parts = @ + 1]
             ELSE [hl EXCEPT !.parts = @ + 1, !.pc = "parse",
                             !.buffer = @ \o part.data,
                             !.progress = FALSE, !.iterations = 0]
    /\ UNCHANGED notLoadVars

\* One iteration of the inner while (true) loop.  Nothing in it sets
\* magic_checked and nothing leaves the loop but the two returns.
ParseIteration(l) ==
    LET line == read_line(l.buffer)
        sig == read_array(l.buffer, ListSigSize)
        hash == read_array(l.buffer, ListHashSize)
        l1 == IF ~l.magic_checked
              THEN IF ~line.found THEN l
                   ELSE IF line.value # MAGIC THEN LoadReturns(l, "bad_message")
                   ELSE [l EXCEPT !.buffer = line.buffer, !.progress = TRUE]
              ELSE IF l.signature = <<>>
              THEN IF ~sig.found THEN l
                   ELSE [l EXCEPT !.buffer = sig.buffer, !.progress = TRUE,
                                  !.signature = sig.value]
              ELSE IF ~hash.found THEN l
                   ELSE [l EXCEPT !.buffer = hash.buffer, !.progress = TRUE,
                                  !.hashes = Append(@, hash.value)]
    IN IF l1.pc = "done" THEN l1
       ELSE IF ~l1.progress /\ Len(l1.buffer) > MAX_LINE_SIZE_BYTES
       THEN LoadReturns(l1, "bad_message")
       ELSE l1

\* The inner loop runs one iteration; `iterations` tells the first from the
\* later ones.
LoadParses ==
    /\ hl.pc = "parse"
    /\ hl' = LET l == ParseIteration(hl)
             IN IF l.pc = "done" THEN l ELSE [l EXCEPT !.iterations = 1]
    /\ UNCHANGED notLoadVars

\* load is called again on another response.
LoadAgain ==
    /\ hl.pc = "done"
    /\ hl' = NewLoad
    /\ UNCHANGED notLoadVars

ReadOutcomes == {"part", "end", "error", "cancel"}

ReadListHead ==
    \E outcome \in ReadOutcomes \ {"end"}, part \in ListParts, ok \in BOOLEAN :
        LoadReadsHead(outcome, part, ok)
ReadListPart ==
    \E outcome \in ReadOutcomes, part \in ListParts, ok \in BOOLEAN :
        LoadReadsPart(outcome, part, ok)

NextLoad ==
    \/ ReadListHead
    \/ ReadListPart
    \/ LoadParses
    \/ LoadAgain

(***************************************************************************)
(* DhtNode: queries received while bootstrap is in progress                *)
(***************************************************************************)

EarlyQueryTypes ==
    {"ping", "find_node", "get_peers", "announce_peer", "get", "put"}

\* well_formed: the arguments pass every check handle_query makes before it
\* turns to the routing table (id, target, info_hash, token, signature, size).
EarlyQueries == [query_type : EarlyQueryTypes, well_formed : BOOLEAN]

NoInbound ==
    [query |-> [query_type |-> "none", well_formed |-> FALSE],
     had_table |-> FALSE, null_deref |-> FALSE, outcome |-> "none"]

InitInbound == inbound = NoInbound

\* The query types whose handler tests `if (_routing_table)` before it calls
\* find_closest_routing_nodes.
GuardsTable(query_type) ==
    query_type \in {"find_node", "get_peers", "announce_peer"}

\* The handlers that call _routing_table->find_closest_routing_nodes without
\* a test: get, and put in its immutable and its mutable branch.
DereferencesTable(q) ==
    q.well_formed /\ q.query_type \in {"get", "put"}

\* What the build can make of a call through the null _routing_table.
NullDerefOutcomes == {"crash", "reply", "error"}

\* receive_loop hands a query to handle_query, which runs to its reply.
HandleEarlyQuery(q, ub) ==
    /\ inbound.outcome # "crash"
    /\ LET null == ~boot.has_table /\ DereferencesTable(q)
       IN inbound' = [query |-> q, had_table |-> boot.has_table,
                      null_deref |-> null,
                      outcome |-> IF null THEN ub
                                  ELSE IF q.well_formed THEN "reply"
                                  ELSE "error"]
    /\ UNCHANGED notEarlyVars

ReceiveEarlyQuery ==
    \E q \in EarlyQueries, ub \in NullDerefOutcomes : HandleEarlyQuery(q, ub)

\* DhtNode::start: the receive loop is spawned, then bootstrap runs.
NextStart ==
    \/ ReceiveEarlyQuery
    \/ TryBootstrap
    \/ SleepOver
    \/ LookupStep
    \/ LookupOver

(***************************************************************************)
(* http_injection_merge (cache/http_sign.cpp)                              *)
(***************************************************************************)

\* How many fields the head and the trailer of the model hold at most.
MaxMergeFields == 2

\* parse::number<time_t> of an empty `created`.
NoCreated == -1

SigName == "X-Ouinet-Sig0"

\* Signature headers: key id, algorithm, creation time stamp, covered headers.
MergeSigs ==
    [name : {SigName}, keyId : {"k1", "k2"}, algorithm : {"hs2019"},
     created : {NoCreated, 1, 2}, headers : {{"date"}, {"date", "digest"}}]

\* A trailer header that is no signature.
PlainTrailer ==
    [name |-> "Digest", keyId |-> "none", algorithm |-> "none",
     created |-> NoCreated, headers |-> {}]

\* has_extra_items(s1, s2).
has_extra_items(s1, s2) == \E i \in s1 : i \notin s2

SameKey(a, b) == a.keyId = b.keyId /\ a.algorithm = b.algorithm

\* insert_trailer: `insert` after the loop over the signatures of the head.
InsertsTrailer(th, head) ==
    \A h \in head :
        (h.name = SigName /\ SameKey(th, h))
            => LET hs_ts == IF h.created = NoCreated THEN 0 ELSE h.created
               IN th.created > hs_ts \/ has_extra_items(th.headers, h.headers)

\* insert_trailer: `keep` for a signature of the head.
KeepsSignature(th, h) ==
    LET hs_ts == IF h.created = NoCreated THEN 0 ELSE h.created
    IN \/ h.name # SigName
       \/ ~SameKey(th, h)
       \/ hs_ts > th.created
       \/ has_extra_items(h.headers, th.headers)

\* insert_trailer(th, head): the head with the trailer header th merged in.
insert_trailer(th, head) ==
    IF th.name # SigName THEN head \cup {th}
    ELSE IF th.created = NoCreated THEN head
    ELSE {h \in head : KeepsSignature(th, h)}
         \cup (IF InsertsTrailer(th, head) THEN {th} ELSE {})

\* http_injection_merge: the trailer headers are inserted in their order.
RECURSIVE http_injection_merge(_, _)
http_injection_merge(rsh, rst) ==
    IF rst = <<>> THEN rsh
    ELSE http_injection_merge(insert_trailer(Head(rst), rsh), Tail(rst))

MergeHeads == {h \in SUBSET MergeSigs : Cardinality(h) <= MaxMergeFields}
MergeTrailers ==
    UNION {[1..n -> MergeSigs \cup {PlainTrailer}] : n \in 0..MaxMergeFields}

NoMerge == [called |-> FALSE, rsh |-> {}, rst |-> <<>>, merged |-> {}]

InitMerge == mg = NoMerge

\* http_injection_merge is called on a head and a trailer.
CallMerge(rsh, rst) ==
    /\ ~mg.called
    /\ mg' = [called |-> TRUE, rsh |-> rsh, rst |-> rst,
              merged |-> http_injection_merge(rsh, rst)]
    /\ UNCHANGED notMergeVars

\* The caller takes the merged head.
MergeReturns ==
    /\ mg.called
    /\ mg' = NoMerge
    /\ UNCHANGED notMergeVars

MergeHeadAndTrailer ==
    \E rsh \in MergeHeads, rst \in MergeTrailers : CallMerge(rsh, rst)

NextMerge == MergeHeadAndTrailer \/ MergeReturns

(***************************************************************************)
(* HashList::verify (cache/hash_list.cpp)                                  *)
(***************************************************************************)

\* DHASH[i] = SHA2-512(DATA[i]): the digest of one block, written as the
\* block behind a mark that no byte of data equals.
DataHash(block) == <<"sha512">> \o block

\* The loop of HashList::verify: a new SHA512 for every block hash, fed the
\* last digest (if any) and the block hash.
RECURSIVE ChainDigest(_, _)
ChainDigest(last_digest, block_hashes) ==
    IF block_hashes = <<>> THEN last_digest
    ELSE ChainDigest(HashClose([prev |-> last_digest, data |-> Head(block_hashes)]),
                     Tail(block_hashes))

\* HashList::verify: the signature must sign the injection id, the offset of
\* the last block and the digest the loop leaves.
HashListVerify(injection_id, block_size, block_hashes, signature, pk) ==
    IF block_hashes = <<>> THEN FALSE
    ELSE verify(pk,
                block_sig_str(injection_id, (Len(block_hashes) - 1) * block_size,
                              ChainDigest(NoChain, block_hashes)),
                signature)

(***************************************************************************)
(* Specifications                                                          *)
(***************************************************************************)

Init ==
    /\ InitPut /\ InitReq /\ InitVr /\ InitWrite /\ InitFan /\ InitFile
    /\ InitSr /\ InitStore /\ InitQuery /\ InitTracker /\ InitTimeout
    /\ InitTransaction /\ InitGet /\ InitMulti /\ InitBoot /\ InitWriteQuery
    /\ InitAnnounce /\ InitAnnouncer /\ InitLookup /\ InitLoad
    /\ InitInbound /\ InitMerge

SpecPut == Init /\ [][NextPut]_vars

SpecReq == Init /\ [][NextReq]_vars

SpecVr == Init /\ [][NextVr]_vars

SpecWrite == Init /\ [][NextWrite]_vars

SpecFan == Init /\ [][NextFan]_vars

SpecFile == Init /\ [][NextFile]_vars

SpecSr == Init /\ [][NextSr]_vars

SpecStore == Init /\ [][NextStore]_vars

SpecQuery == Init /\ [][NextQuery]_vars
SpecTracker == Init /\ [][NextTracker]_vars
SpecTimeout == Init /\ [][NextTimeout]_vars
SpecTransaction == Init /\ [][NextTransaction]_vars
SpecGet == Init /\ [][NextGet]_vars
SpecMulti == Init /\ [][NextMulti]_vars
SpecBoot == Init /\ [][NextBoot]_vars
SpecWriteQuery == Init /\ [][NextWriteQuery]_vars
SpecAnnounce == Init /\ [][NextAnnounce]_vars
SpecAnnouncer == Init /\ [][NextAnnouncer]_vars
SpecLookup == Init /\ [][NextLookup]_vars
SpecLoad == Init /\ [][NextLoad]_vars
\* The coroutine of load is resumed whenever its read has completed and keeps
\* running while it is in its loops.
SpecLoadFair == SpecLoad /\ WF_vars(NextLoad)
SpecStart == Init /\ [][NextStart]_vars
SpecMerge == Init /\ [][NextMerge]_vars

(***************************************************************************)
(* Claims about the inbound mutable put                                    *)
(***************************************************************************)

\* The last put passed the token, responsibility and signature checks and an
\* item was stored under its key.
PutOnStored == lastPut.valid /\ lastPut.before # NoItem

PutItem == [seq |-> lastPut.seq, v |-> lastPut.v]

\* C2: a node storing seq s1 that receives a valid put (valid token,
\* responsible, valid signature, no conflicting cas) of s2 > s1 stores s2; a put
\* of s1 < s2 to a node storing s2 is answered with error 302 and s2 stays.
C2_HigherSeqWins ==
    PutOnStored =>
        /\ (/\ lastPut.before.seq < lastPut.seq
            /\ lastPut.cas \in {NoCas, lastPut.before.seq})
           => /\ lastPut.reply = ReplyOk
              /\ dataStore[lastPut.key] = PutItem
        /\ lastPut.seq < lastPut.before.seq
           => /\ lastPut.reply = ErrSeqRegress
              /\ dataStore[lastPut.key] = lastPut.before

C2_Witness ==
    /\ PutOnStored
    /\ lastPut.before.seq < lastPut.seq
    /\ lastPut.cas = NoCas
    /\ dataStore[lastPut.key].seq = lastPut.seq

\* C3 as stated: whenever an item is stored and cas differs from the stored
\* seq, the reply is error 301 and the stored item is unchanged.
C3_CasMismatchAlways301 ==
    (PutOnStored /\ lastPut.cas # NoCas /\ lastPut.cas # lastPut.before.seq)
        => /\ lastPut.reply = ErrCasMismatch
           /\ dataStore[lastPut.key] = lastPut.before

\* The sequence checks, which handle_query makes before the cas check.
PutSeqRejected ==
    \/ lastPut.seq < lastPut.before.seq
    \/ lastPut.seq = lastPut.before.seq /\ lastPut.v # lastPut.before.v

\* C3 (amended): with an item stored and cas differing from the stored seq the
\* put is rejected and the stored item is unchanged; the error is 301 unless
\* the sequence check rejects the put first (seq lower than stored, or equal
\* with another value), and then it is 302.  With cas equal to the stored seq
\* and a seq the sequence check accepts, the put is stored.
C3_CasEnforced ==
    PutOnStored =>
        /\ (lastPut.cas # NoCas /\ lastPut.cas # lastPut.before.seq)
           => /\ dataStore[lastPut.key] = lastPut.before
              /\ lastPut.reply =
                    IF PutSeqRejected THEN ErrSeqRegress ELSE ErrCasMismatch
        /\ (lastPut.cas = lastPut.before.seq /\ ~PutSeqRejected)
           => /\ lastPut.reply = ReplyOk
              /\ dataStore[lastPut.key] = PutItem

\* The scenario: seq s stored, put(seq = s+1, cas = s-1) is answered 301.
C3_Witness ==
    /\ PutOnStored
    /\ lastPut.before.seq = 1
    /\ lastPut.seq = 2
    /\ lastPut.cas = 0
    /\ lastPut.reply = ErrCasMismatch

\* C4: over any sequence of inbound puts the sequence number stored under a
\* key never decreases and the value stored under a given sequence number
\* never changes; a put that passes the token, responsibility and signature
\* checks with the stored seq and another value is answered 302.
C4_SeqMonotonic ==
    [][ /\ \A k \in Keys :
            dataStore[k] # NoItem =>
                /\ dataStore'[k] # NoItem
                /\ dataStore'[k].seq >= dataStore[k].seq
                /\ dataStore'[k].seq = dataStore[k].seq
                   => dataStore'[k].v = dataStore[k].v
        /\ (/\ lastPut'.valid
            /\ lastPut'.before # NoItem
            /\ lastPut'.seq = lastPut'.before.seq
            /\ lastPut'.v # lastPut'.before.v)
           => lastPut'.reply = ErrSeqRegress
      ]_vars

C4_Witness ==
    /\ PutOnStored
    /\ lastPut.seq = lastPut.before.seq
    /\ lastPut.v # lastPut.before.v
    /\ lastPut.reply = ErrSeqRegress
    /\ dataStore[lastPut.key] = lastPut.before

(***************************************************************************)
(* Claims about the replies to inbound queries                             *)
(***************************************************************************)

\* C19: every success reply of handle_query is a dictionary with y = "r", the
\* query's transaction id under t and the result dictionary, with the node's
\* id, under r; error replies have y = "e" and [code, text] under e; and the
\* node's own query code takes the result out of such a success reply.
C19_ReplyFormat ==
    handled # NoHandled =>
        LET d == handled.datagram
        IN  /\ d.t = handled.query.t
            /\ d.y \in {"r", "e"}
            /\ d.y = "r" =>
                /\ "r" \in DOMAIN d
                /\ d.r.id = NodeId
                /\ ReplyResult(d) = d.r
            /\ d.y = "e" =>
                /\ "e" \in DOMAIN d
                /\ d.e[1] \in {ErrNotResponsible, ErrProtocol, ErrBadSignature,
                               ErrCasMismatch, ErrSeqRegress}

\* The result dictionary handle_query has sent, under whichever key.
SentResult ==
    IF "r" \in DOMAIN handled.datagram THEN handled.datagram.r ELSE handled.datagram.e

\* C20: an inbound get for a target under which a mutable item is stored
\* returns the item (k, seq, sig, v) when the query carries no seq or a seq
\* less than the stored one; nodes and a fresh token are returned in every
\* case.
C20_GetReturnsNewerItem ==
    (handled.query.q = "get") =>
        /\ handled.datagram.y = "r"
        /\ SentResult.nodes = find_closest_routing_nodes(handled.query.target)
        /\ SentResult.token = generate_token(handled.query.sender, handled.query.target)
        /\ (handled.item # NoItem
            /\ (handled.query.seq = NoSeq \/ handled.query.seq < handled.item.seq)) =>
               /\ SentResult.k = PublicKey(handled.query.target)
               /\ SentResult.seq = handled.item.seq
               /\ SentResult.sig = ItemSignature(handled.query.target, handled.item)
               /\ SentResult.v = handled.item.v

(***************************************************************************)
(* Claims about request/response correlation                               *)
(***************************************************************************)

\* C5: a received y=r or y=e message completes a pending query only if its
\* transaction id is in the pending-request table and its sender is the
\* endpoint the query was sent to; any other message changes no query.
C5_ReplyMatchedByTidAndPeer ==
    /\ [](\A t \in Tids :
            (delivered[t] > 0 \/ query[t].response # NoPayload
                \/ query[t].first_error_code = "success")
            => /\ accepted[t].t = t
               /\ accepted[t].sender = query[t].dst
               /\ accepted[t].payload = query[t].response)
    /\ [][\A t \in Tids :
            activeRequests[t] = NoEndpoint =>
                \/ query'[t] = query[t]
                \/ query[t].pc = "idle" /\ query'[t].pc = "waiting"]_vars

C5_Witness ==
    \E t \in Tids :
        /\ query[t].pc = "done"
        /\ query[t].first_error_code = "success"
        /\ accepted[t].sender = query[t].dst
        /\ \E u \in Tids : u # t /\ query[u].pc = "waiting"
                                 /\ query[u].first_error_code = "unset"

\* C6: per transaction id at most one reply takes effect: the first reply
\* from the queried peer sets the response; later duplicates, and a reply that
\* arrives after the query timed out or was cancelled, change nothing.
C6_AtMostOneReplyDelivered ==
    /\ [](\A t \in Tids : delivered[t] <= 1)
    /\ [][\A t \in Tids :
            query[t].first_error_code # "unset" =>
                /\ query'[t].response = query[t].response
                /\ query'[t].first_error_code
                      \in {query[t].first_error_code, "operation_aborted"}]_vars

C6_Witness ==
    \E t \in Tids :
        /\ duplicate = t
        /\ delivered[t] = 1
        /\ query[t].first_error_code = "success"
        /\ query[t].response = accepted[t].payload

(***************************************************************************)
(* Claims about VerifyingReader                                            *)
(***************************************************************************)

\* The chunk bodies the reader has released: returned to the caller or queued
\* in pending_parts for the next call.
ReleasedBodies == handed \o SelectSeq(vr.pending_parts, LAMBDA p : p # TrailerPart)

\* Index of the data block the response starts with.
FirstBlock == IF vr.range_begin # NoRange THEN vr.range_begin \div BlockSize ELSE 0

\* The signature that came with the last block verifies against the injection
\* id, the block's offset and the chain hash the reader computed.
LastBlockVerifies ==
    lastBlock.sig # NoSig /\ verify(InjectorKey, lastBlock.str, lastBlock.sig)

\* C1: a block's body is released to the caller only after the signature in
\* the following chunk header has verified against (injection id, block
\* offset, chain hash): every released body is the block the injector signed
\* for its offset, at most one body is released per verified block, and a
\* block whose signature is missing or does not verify makes the read fail
\* with bad_message without the block being queued or returned.
C1_BodyOnlyAfterBlockSignature ==
    /\ \A i \in 1..Len(ReleasedBodies) :
          /\ FirstBlock + i - 1 < NumBlocks
          /\ ReleasedBodies[i] = OrigBlock(FirstBlock + i - 1)
    /\ lastBlock.checked =>
          IF LastBlockVerifies
          THEN Len(ReleasedBodies) <= lastBlock.handed_before + 1
          ELSE /\ vr.ec = "bad_message"
               /\ vr.pending_parts = <<>>
               /\ Len(handed) = lastBlock.handed_before

\* A first block was returned to the caller, then a block arrived with a
\* signature that does not verify, and the read failed.
C1_Witness ==
    /\ lastBlock.checked
    /\ lastBlock.data # <<>>
    /\ lastBlock.sig # NoSig
    /\ ~LastBlockVerifies
    /\ Len(handed) >= 1
    /\ vr.ec = "bad_message"

\* C10 as stated: once the response has been read to its end, a full response
\* fails with bad_message unless the received length equals X-Ouinet-Data-Size
\* and the SHA-256 of the received body equals the Digest header; a partial
\* response fails with bad_message unless the received length equals the
\* length of the Content-Range.
C10_BodyCheckedAtEnd ==
    vr.is_done =>
        IF vr.range_begin = NoRange
        THEN \/ vr.ec = "bad_message"
             \/ Len(vr.body) = vr.data_size /\ vr.digest = http_digest(vr.body)
        ELSE \/ vr.ec = "bad_message"
             \/ Len(vr.body) = vr.range_end - vr.range_begin

\* The Data-Size and Digest the reader ends with are covered by a signature
\* that verified: they came with the signed head, or with a trailer whose
\* final signature verified.
FinalFieldsVerified ==
    \/ lastTrailer.head_data_size # NoSize /\ lastTrailer.head_digest # NoDigest
    \/ TrailerSigned(lastTrailer)

\* C11 as stated: a full response ends without error only if a signature
\* covering X-Ouinet-Data-Size and Digest has verified under the public key,
\* and a trailer that supplies these fields without a verifying signature
\* makes the read fail with bad_message.
C11_FinalSignatureRequired ==
    /\ (vr.is_done /\ vr.ec = "ok" /\ vr.range_begin = NoRange)
          => FinalFieldsVerified
    /\ (/\ lastTrailer.received
        /\ lastTrailer.data_size # NoSize \/ lastTrailer.digest # NoDigest
        /\ ~TrailerSigned(lastTrailer))
          => vr.ec = "bad_message"

(***************************************************************************)
(* Claims about SigningReader                                              *)
(***************************************************************************)

\* The data blocks of the body the SigningReader was given.
SrNumBlocks == (Len(sr.origin) + BlockSize - 1) \div BlockSize
SrBlock(j) ==
    SubSeq(sr.origin, j * BlockSize + 1,
           IF (j + 1) * BlockSize < Len(sr.origin) THEN (j + 1) * BlockSize
           ELSE Len(sr.origin))

\* The head the SigningReader signed, as far as the reader of its output has
\* got: the injection head, and with the trailer the size and digest of the
\* body.
SignedHeadSoFar ==
    IF rt.pc = "end"
    THEN [sr.outh EXCEPT !.data_size = Len(sr.origin), !.digest = http_digest(sr.origin)]
    ELSE sr.outh

\* The reader of the SigningReader's output has read all of a finished stream.
RoundTripOver ==
    /\ sr.is_done
    /\ sr.pending_parts = <<>>
    /\ rtPos = Len(srOut)
    /\ rt.pending_parts = <<>>

\* C12: of a response the SigningReader signs, no read of the VerifyingReader
\* with the matching public key fails, the bodies it returns are the data
\* blocks of the signed body in order, all of them once the stream is read,
\* and its head without framing and signature headers is the signed head.
C12_SignVerifyRoundTrip ==
    sr.do_inject =>
        /\ rt.ec = "ok"
        /\ \A i \in 1..Len(rtHanded) :
              i <= SrNumBlocks /\ rtHanded[i] = SrBlock(i - 1)
        /\ rtPos > 0 =>
              /\ rtHead # NoHead
              /\ SignedFields(rtHead) = SignedFields(SignedHeadSoFar)
        /\ RoundTripOver =>
              /\ rt.is_done
              /\ rt.body = sr.origin
              /\ Len(rtHanded) = SrNumBlocks

\* A body of two blocks, the last one partial, has gone through both readers.
C12_Witness ==
    /\ sr.do_inject
    /\ RoundTripOver
    /\ rt.is_done
    /\ rt.ec = "ok"
    /\ Len(rtHanded) = 2
    /\ Len(rtHanded[2]) < BlockSize
    /\ rtHead.data_size = Len(sr.origin)
    /\ sr.outh.origin # {}

\* SIG[i]: the signature of (injection id, offset of block i, chain hash of
\* blocks 0..i) of the body the SigningReader was given; for an empty body the
\* signature of the empty block at offset 0.
SrChain(i) == [k \in 1..(i + 1) |-> SrBlock(k - 1)]
SrSig(i) == Sign(InjectorKey, block_sig_str(InjectionId, i * BlockSize, SrChain(i)))
SrLastSig == SrSig(IF SrNumBlocks = 0 THEN 0 ELSE SrNumBlocks - 1)

\* The stream of a signed response: head, chunk header and body per block,
\* last chunk header, trailer.
SrBlockParts(i) ==
    <<ChunkHdr(Len(SrBlock(i)), IF i = 0 THEN NoSig ELSE SrSig(i - 1), NoChain),
      ChunkBody(SrBlock(i))>>
SrExpected ==
    <<HeadPart(sr.outh)>>
    \o [k \in 1..(2 * SrNumBlocks) |-> SrBlockParts((k - 1) \div 2)[2 - (k % 2)]]
    \o <<ChunkHdr(0, SrLastSig, NoChain),
         Trailer([data_size |-> Len(sr.origin), digest |-> http_digest(sr.origin),
                  sigs |-> {http_signature(
                               [sr.outh EXCEPT !.data_size = Len(sr.origin),
                                               !.digest = http_digest(sr.origin)],
                               InjectorKey)}])>>

\* A part without its ouihash extension.
WithoutHash(part) == [part EXCEPT !.hash = NoChain]

\* C13: what the SigningReader has emitted of a response it signs is at any
\* time the beginning of: the signed head; per block i a chunk header of the
\* block's size, without ouisig for block 0 and with ouisig = SIG[i-1] for
\* i >= 1, and the block's body; one zero-length chunk header with the last
\* block's signature; one trailer with X-Ouinet-Data-Size, Digest and sig1.
\* It is all of it once the reader is done and its queue is empty, nothing
\* follows, and every block but the last has BlockSize bytes.
C13_SignedStreamOrder ==
    sr.do_inject =>
        /\ Len(srOut) <= Len(SrExpected)
        /\ \A k \in 1..Len(srOut) : WithoutHash(srOut[k]) = SrExpected[k]
        /\ (sr.is_done /\ sr.pending_parts = <<>>) => Len(srOut) = Len(SrExpected)
        /\ \A k \in 1..Len(srOut) :
              (srOut[k].kind = "chunk_body" /\ k + 2 <= Len(srOut)
                    /\ srOut[k + 2].kind = "chunk_body")
                 => Len(srOut[k].data) = BlockSize

\* The whole stream of a body of two blocks has been emitted.
C13_Witness ==
    /\ sr.do_inject
    /\ sr.is_done
    /\ sr.pending_parts = <<>>
    /\ Len(srOut) = 7
    /\ srOut[4].sig = SrSig(0)
    /\ srOut[6].size = 0
    /\ srOut[7].kind = "trailer"

\* C14 as stated: in the stream of a response the SigningReader signs, the
\* chunk header that carries the signature of block i >= 1 (the second block
\* onwards) also carries ouihash, the chain hash of block i - 1.
C14_OuihashFromSecondBlock ==
    sr.do_inject =>
        \A k \in 1..Len(srOut) : \A i \in 1..(SrNumBlocks - 1) :
            (srOut[k].kind = "chunk_hdr" /\ srOut[k].sig = SrSig(i))
                => srOut[k].hash = SrChain(i - 1)

(***************************************************************************)
(* Claims about the local response store                                   *)
(***************************************************************************)

IsPrefix(s, t) == Len(s) <= Len(t) /\ s = SubSeq(t, 1, Len(s))

\* The entry holds the whole response (the trailer was merged into the head),
\* or the stream ended before the trailer.
StoredComplete == stored # NoStored /\ stored.head.data_size # NoSize
StoredIncomplete == stored # NoStored /\ stored.head.data_size = NoSize

\* The chunk header that carries the signature of block j: ouisig, and ouihash
\* (the chain hash before block j) unless j is the first block of the response.
HdrWithSigOf(size, j) ==
    ChunkHdr(size, StoreSig(j), IF j = 0 THEN NoChain ELSE StoreChain(j - 1))

\* One chunk per block first_block..last_block of the response that was
\* stored; the first chunk header has no extensions.
RECURSIVE BlockChunks(_, _)
BlockChunks(first_block, last_block) ==
    IF last_block < first_block THEN <<>>
    ELSE BlockChunks(first_block, last_block - 1)
         \o <<IF last_block = first_block
              THEN ChunkHdr(Len(StoreBlock(last_block)), NoSig, NoChain)
              ELSE HdrWithSigOf(Len(StoreBlock(last_block)), last_block - 1),
              ChunkBody(StoreBlock(last_block))>>

\* The stored head with the trailer's fields and X-Ouinet-Sig1 only, chunked.
CompleteHead ==
    [SignedHead EXCEPT !.data_size = StoreSize, !.digest = http_digest(StoreData),
                       !.sigs = SignedTrailer.sigs, !.trailer = FALSE]
NoTrailerFields == [data_size |-> NoSize, digest |-> NoDigest, sigs |-> {}]

WholeExpected ==
    <<HeadPart(CompleteHead)>> \o BlockChunks(0, StoreBlocks - 1)
    \o <<HdrWithSigOf(0, StoreBlocks - 1), Trailer(NoTrailerFields)>>

\* C15: reading back a completely stored signed response with
\* http_store_reader yields the head (chunked framing, the trailer's fields
\* merged in), then for each block, in order, one chunk header and one chunk
\* body with exactly the stored data, each header after the first carrying the
\* previous block's signature, then the zero-length chunk header carrying the
\* last block's signature, then the trailer, and nothing else.
C15_StoreRoundTrip ==
    (StoredComplete /\ ~reader.ranged /\ reader.pc # "closed") =>
        /\ IsPrefix(loaded, WholeExpected)
        /\ reader.pc = "done" => loaded = WholeExpected

C15_Witness ==
    /\ StoredComplete /\ ~reader.ranged /\ reader.pc = "done"
    /\ Len(loaded) = 2 * StoreBlocks + 3
    /\ Flatten([k \in 1..StoreBlocks |-> loaded[2 * k + 1].data]) = StoreData

\* The blocks of an incomplete entry whose signature is stored.
SignedBlocks == Len(stored.sigs)
IncompleteHead == [SignedHead EXCEPT !.trailer = FALSE]
SignedBlocksExpected == <<HeadPart(IncompleteHead)>> \o BlockChunks(0, SignedBlocks - 1)

RangeExpected(first, last) ==
    LET first_block == first \div BlockSize
        last_block == last \div BlockSize
        end == IF (last_block + 1) * BlockSize < StoreSize
               THEN (last_block + 1) * BlockSize ELSE StoreSize
    IN  <<HeadPart([http_status |-> "200",
                    content_range |-> <<first_block * BlockSize, end - 1, StoreSize>>]
                   @@ [CompleteHead EXCEPT !.status = "206"])>>
        \o BlockChunks(first_block, last_block)
        \o <<HdrWithSigOf(0, last_block), Trailer(NoTrailerFields)>>

C18_ReaderIffRangeStored ==
    reader.ranged =>
        /\ reader.ec = "ok" <=>
               /\ reader.last < Len(stored.body)
               /\ reader.last \div BlockSize < Len(stored.sigs)
        /\ reader.ec = "ok" => reader.pc # "closed"
        /\ reader.ec # "ok" =>
               reader.ec = "invalid_seek" /\ reader.pc = "closed" /\ loaded = <<>>

C18_Witness ==
    /\ StoredIncomplete /\ reader.ranged /\ reader.ec = "ok" /\ reader.pc = "done"
    /\ reader.last \div BlockSize = SignedBlocks - 1
    /\ loaded # <<>>

(***************************************************************************)
(* Claims about the high-level write operations                            *)
(***************************************************************************)

\* Some write of the operation succeeded, recorded by the operation or not.
SomeWriteSucceeded == \E c \in Contacts : wr.write[c] \in {"ok", "ok_unrecorded"}

\* C7 as stated: each high-level write operation returns operation_aborted
\* if the caller's cancel signal fired, else success if at least one write
\* succeeded, else network_down.
C7_AnyWriteDecides ==
    wr.pc = "done" =>
        wr.ec = IF wr.cancel THEN "operation_aborted"
                ELSE IF SomeWriteSucceeded THEN "ok"
                ELSE "network_down"

\* C7 (amended): tracker_announce and data_put_immutable return the lookup's
\* error without writing when the lookup fails; otherwise they have sent the
\* write to every collected responsible node and to no other, and return
\* operation_aborted if the caller's cancel signal fired, else success if at
\* least one write succeeded, else network_down.  data_put_mutable returns
\* operation_aborted if the caller's cancel signal fired, else network_down if
\* no write to a responsible candidate was recorded as successful, else the
\* lookup's error code.
C7_WriteResult ==
    wr.pc = "done" =>
        IF wr.op = "data_put_mutable"
        THEN wr.ec = IF wr.cancel THEN "operation_aborted"
                     ELSE IF \A c \in Contacts : wr.write[c] # "ok" THEN "network_down"
                     ELSE wr.lookup_ec
        ELSE IF wr.lookup_ec # "ok"
        THEN /\ wr.ec = wr.lookup_ec
             /\ \A c \in Contacts : wr.write[c] = "none"
        ELSE /\ \A c \in Contacts :
                  IF c \in wr.responsible_nodes THEN wr.write[c] \in {"ok", "failed"}
                  ELSE wr.write[c] = "none"
             /\ wr.ec = IF wr.cancel THEN "operation_aborted"
                        ELSE IF \E c \in Contacts : wr.write[c] = "ok" THEN "ok"
                        ELSE "network_down"

\* An announce whose lookup collected two responsible nodes; one write
\* succeeded, then the caller cancelled, the other write failed and the
\* operation returned operation_aborted.
C7_Witness ==
    /\ wr.pc = "done"
    /\ wr.op = "tracker_announce"
    /\ wr.responsible_nodes = RoutingContacts
    /\ wr.write["n1"] = "ok"
    /\ wr.write["n2"] = "failed"
    /\ wr.cancel
    /\ wr.ec = "operation_aborted"

(***************************************************************************)
(* Claims about the MainlineDht fan-out operations                         *)
(***************************************************************************)

\* C8 as stated: a fan-out operation returns only after all the child tasks
\* it spawned have finished, a child that is still running once the caller's
\* cancel signal has been handled has had its own cancel signal fired, and no
\* child runs or touches the operation's locals after the operation returned.
C8_ChildrenFinishBeforeReturn ==
    /\ fan.pc = "returned" => \A n \in DhtNodes : fan.child[n] = "done"
    /\ (fan.caller_cancel /\ fan.pc \in {"wait_all", "returned"})
          => \A n \in DhtNodes : fan.child[n] = "running" => fan.child_cancel
    /\ ~fan.late_child

(***************************************************************************)
(* Claims about the cache files                                            *)
(***************************************************************************)

\* The file holds a whole response.
Whole(entry) == entry.fetch \in Fetches /\ entry.parts = RespParts

\* C9: a cache entry is visible at its final path only as a whole.  The final
\* path and what a reader finds there are either absent or a whole response;
\* the final path changes only by the rename of a fetch whose temporary file
\* holds the whole response and whose flush returned without error; a fetch
\* that ends in any other way leaves the final path as it was; and a fetch
\* that has ended has no temporary file left.
C9_EntryVisibleOnlyWhole ==
    /\ [](/\ final = NoEntry \/ Whole(final)
          /\ served = NoEntry \/ Whole(served)
          /\ \A f \in Fetches : fetch[f].pc # "flushing" => fetch[f].temp = NoTemp)
    /\ [][/\ final' # final =>
                (\E f \in Fetches :
                    /\ fetch[f].pc = "flushing" /\ fetch[f].temp = RespParts
                    /\ fetch'[f].pc = "done" /\ fetch'[f].ec = "ok"
                    /\ final' = [fetch |-> f, parts |-> RespParts])
           /\ (\A g \in Fetches :
                (fetch[g].pc = "flushing" /\ fetch'[g].pc = "done" /\ fetch'[g].ec # "ok")
                    => final' = final /\ fetch'[g].temp = NoTemp)]_vars

\* One fetch was cancelled after writing a part of the response and left
\* nothing behind, the other was committed, and a reader was served the
\* committed entry.
C9_Witness ==
    /\ fetch[1].pc = "done" /\ fetch[1].ec = "operation_aborted"
    /\ fetch[2].pc = "done" /\ fetch[2].ec = "ok"
    /\ final = [fetch |-> 2, parts |-> RespParts]
    /\ served = final

(***************************************************************************)
(* Claims about inbound announce_peer and put queries                      *)
(***************************************************************************)

\* The contacts of the routing table closer to the target than this node.
CloserContacts == {d \in routing : d < SelfDistance}

\* C21: a put whose bencoded value is at most 1000 bytes is not answered
\* with error 205, and one answered with error 205 is larger than 1000 bytes.
C21_Accepts1000 ==
    lastWrite.q = "put" =>
        (lastWrite.reply = ErrTooBig <=> lastWrite.query.size > 1000)

\* C22: an announce_peer adds a peer only if its token is the one generated
\* for (sender address, info_hash) and fewer than MaxClosest known contacts
\* are closer to the info_hash than this node; the peer added is (sender
\* address, port argument), or (sender address, sender's source port) when
\* implied_port is 1; with another token the reply is an error and the peers
\* are unchanged.
C22_AnnounceRecordsPeer ==
    lastWrite.q = "announce_peer" =>
        LET q == lastWrite.query
            peer == [address |-> q.address,
                     port |-> IF q.implied_port = 1 THEN q.sender_port ELSE q.port]
            valid == q.token = [address |-> q.address, target |-> InfoHash]
        IN  /\ swarm \in {lastWrite.swarm, lastWrite.swarm \cup {peer}}
            /\ lastWrite.reply = ReplyOk =>
                   /\ peer \in swarm
                   /\ valid
                   /\ Cardinality(CloserContacts) < MaxClosest
            /\ lastWrite.reply # ReplyOk => swarm = lastWrite.swarm
            /\ ~valid => lastWrite.reply # ReplyOk

C22_Witness ==
    /\ lastWrite.q = "announce_peer"
    /\ lastWrite.reply = ReplyOk
    /\ lastWrite.query.implied_port = 1
    /\ lastWrite.query.sender_port # lastWrite.query.port
    /\ [address |-> lastWrite.query.address,
        port |-> lastWrite.query.sender_port] \in swarm \ lastWrite.swarm

\* C23: an announce_peer or put with a valid token is answered with error
\* 201 exactly when MaxClosest or more known contacts are closer to the
\* target than this node.
C23_RejectedIffNotAmongClosest ==
    /\ lastWrite.q = "announce_peer"
       /\ lastWrite.query.token = generate_token(lastWrite.query.address, InfoHash)
       => (lastWrite.reply = ErrNotResponsible
              <=> Cardinality(CloserContacts) >= MaxClosest)
    /\ lastWrite.q = "put" /\ lastWrite.query.size < ValueSizeLimit
       /\ lastWrite.query.token =
              generate_token(lastWrite.query.address, lastWrite.query.size)
       => (lastWrite.reply = ErrNotResponsible
              <=> Cardinality(CloserContacts) >= MaxClosest)

(***************************************************************************)
(* Claims about the timeout of an outbound query                           *)
(***************************************************************************)

\* C24: a query without a reply fails with a timeout after the adaptive time
\* of its query type (mean + 3 sigma of the last 10 reply latencies, 3 s with
\* too few samples, at most 3 s), and after 10 replies that took 20 to 40 ms
\* the next query's timeout is between 40 and 100 ms.
C24_AdaptiveTimeout ==
    /\ oq.state \in {"timed_out", "operation_aborted"} =>
           /\ oq.state = "timed_out"
           /\ oq.waited = max_reply_wait_time(window)
           /\ oq.waited <= 3000
    /\ oq.state = "waiting" /\ Len(window) = 10 =>
           oq.timer >= 40 /\ oq.timer <= 100

(***************************************************************************)
(* Claims about transaction strings                                        *)
(***************************************************************************)

\* The number a byte string stands for, first byte least significant, and
\* first byte most significant.
RECURSIVE LittleEndianValue(_)
LittleEndianValue(s) ==
    IF s = <<>> THEN 0 ELSE Head(s) + ByteRange * LittleEndianValue(Tail(s))

RECURSIVE BigEndianValue(_)
BigEndianValue(s) ==
    IF s = <<>> THEN 0
    ELSE BigEndianValue(SubSeq(s, 1, Len(s) - 1)) * ByteRange + s[Len(s)]

\* A string of 1 to CounterBytes bytes, with no byte that could be left out.
MinimalLength(s, first) ==
    /\ Len(s) \in 1..CounterBytes
    /\ \A i \in 1..Len(s) : s[i] \in 0..(ByteRange - 1)
    /\ Len(s) > 1 => s[IF first THEN 1 ELSE Len(s)] # 0

\* The ids come from one counter that goes up by one and wraps to 0.
CounterMonotonic ==
    txString # <<>> => txCounter = (txLast + 1) % CounterRange

\* C25: the id issued last is sent as the minimal-length big-endian byte
\* string of the counter value, 0 as a single NUL byte; the string determines
\* the value, so distinct values give distinct strings.
C25_BigEndianString ==
    /\ CounterMonotonic
    /\ txString # <<>> =>
           /\ MinimalLength(txString, TRUE)
           /\ BigEndianValue(txString) = txLast

\* C25, amended: the id issued last is sent as the minimal-length
\* little-endian byte string of the counter value (least significant byte
\* first, 1 to 4 bytes, 0 as a single NUL byte); the string determines the
\* value, so distinct values give distinct strings.
C25_LittleEndianString ==
    /\ CounterMonotonic
    /\ txString # <<>> =>
           /\ MinimalLength(txString, FALSE)
           /\ LittleEndianValue(txString) = txLast

C25_Witness ==
    /\ txLast = CounterRange - ByteRange
    /\ Len(txString) = CounterBytes
    /\ txString[1] = 0 /\ txString[CounterBytes] = ByteRange - 1

(***************************************************************************)
(* Claims about data_get_mutable                                           *)
(***************************************************************************)

\* C26: the search goes on after the first valid item; the item held, and
\* returned, is validly signed and has the highest seq of the valid replies
\* processed, other replies being ignored; when the 5-second watchdog, which
\* runs from the first valid item on, ends the search the item is returned
\* without error, and a cancel by the caller yields operation_aborted.
C26_HighestSeqReturned ==
    /\ gm.data.seq = gm.best
    /\ gm.data # NoData =>
           gm.data.sig = [k |-> "pkA", seq |-> gm.data.seq, v |-> gm.data.v]
    /\ gm.cancel_wd <=> gm.first # NoSeq
    /\ gm.state = "returned" /\ gm.cause = "watchdog" =>
           gm.ec = "ok" /\ gm.data # NoData
    /\ gm.state = "returned" /\ gm.cause = "cancel" =>
           gm.ec = "operation_aborted"
    /\ gm.state = "returned" /\ gm.cause = "exhausted" => gm.ec = "ok"

C26_Witness ==
    /\ gm.state = "returned"
    /\ gm.cause = "watchdog"
    /\ gm.first # NoSeq
    /\ gm.data.seq > gm.first
    /\ gm.probes = MaxProbes

(***************************************************************************)
(* Claims about the multi-peer reader                                      *)
(***************************************************************************)

\* C27: no request of the fetch is outstanding at a peer that has returned
\* bytes which failed verification, the fetch stays active while a peer that
\* has not is left, and the blocks handed to the caller are the verified
\* blocks in order.
C27_BadPeerNotAskedAgain ==
    /\ mp.pending \cap mpBad = {}
    /\ mpBad # Peers /\ Len(mpOut) < FetchBlocks => mp.state = "active"
    /\ Len(mpOut) = mp.block_id
    /\ \A i \in 1..Len(mpOut) : mpOut[i].bytes = reference_hash_list[i - 1]

C27_Witness ==
    /\ mpBad # {}
    /\ mp.pending # {}
    /\ Len(mpOut) = FetchBlocks - 1

(***************************************************************************)
(* Claims about bootstrap                                                  *)
(***************************************************************************)

\* C28: once bootstrap has completed successfully the routing table holds
\* the bootstrap contact that answered.
C28_BootstrapContactInTable ==
    boot.ready =>
        \E c \in boot.routing_table : c.endpoint = boot.answered

\* C28, amended: once bootstrap has completed successfully the routing table
\* exists and the bootstrap contact that answered is among the bootstrap
\* endpoints, which seed every search; the routing table holds only contacts
\* with an id and may be empty.
C28_BootstrapEndpointKept ==
    boot.ready =>
        /\ boot.has_table
        /\ boot.answered \in Bootstraps
        /\ boot.answered \in boot.bootstrap_endpoints
        /\ \A c \in boot.routing_table : c.id # NoValue

C28_Witness ==
    /\ boot.ready
    /\ boot.routing_table = {}
    /\ boot.bootstrap_endpoints = {boot.answered}

(***************************************************************************)
(* Claims about send_write_query                                           *)
(***************************************************************************)

\* C29: send_write_query sends at most 3 queries, goes on after a failed
\* attempt, an attempt answered with an error message included, stops after
\* a reply of type "r" and after operation_aborted, and reports the last
\* error when no attempt got a reply of type "r".
C29_RetriesUntilPositiveResponse ==
    LET n == Len(wq.attempts)
        Failed(o) == o # "r"
    IN  /\ n <= TRIES
        /\ \A k \in 1..(n - 1) : wq.attempts[k] \notin {"r", "operation_aborted"}
        /\ wq.state = "returned" =>
               /\ n < TRIES => wq.attempts[n] \in {"r", "operation_aborted"}
               /\ wq.ec = "ok" <=> wq.attempts[n] = "r"
               /\ Failed(wq.attempts[n]) /\ wq.attempts[n] # "e" =>
                      wq.ec = wq.attempts[n]

(***************************************************************************)
(* Claims about MainlineDht::tracker_announce                              *)
(***************************************************************************)

\* C30: tracker_announce, unless it was cancelled, returns without error
\* when the announce has succeeded on a node, with or without peers found,
\* and returns network_unreachable only when it has succeeded on no node.
C30_SucceedsIfAnyNodeAnnounced ==
    ta.pc = "returned" /\ ~ta.cancelled =>
        /\ ta.announced # {} => ta.ec = "ok"
        /\ ta.ec = "network_unreachable" => ta.announced = {}

\* C31: the sweep over the bootstrap domains is repeated, with a wait of 10 s
\* in between, until a domain has answered; the wait comes only after a
\* sweep in which no domain succeeded, and the routing table is made only
\* after a successful sweep.
C31_WaitOnlyAfterFailedSweep ==
    /\ boot.state = "sleep" => ~boot.done /\ boot.tried = Bootstraps
    /\ boot.has_table => boot.done

(***************************************************************************)
(* Claims about the Bep5 announcers                                        *)
(***************************************************************************)

\* C32: a Periodic or Manual announcer whose cancel signal has fired starts
\* no further tracker_announce.
C32_NoAnnounceAfterCancel == ~an.late

(***************************************************************************)
(* DhtLookup::get                                                          *)
(***************************************************************************)

\* C33: at most one lookup job is running at any time; a caller that was
\* served without waiting found a previous result that was successful and
\* not older than 5 minutes, and a caller that found anything else waits
\* while a job is running.
C33_OneJobFreshOrWait ==
    /\ lookup.running <= 1
    /\ \A c \in GetCallers :
          /\ (getters[c].pc = "done" /\ ~getters[c].waited)
                => (getters[c].prev_ok /\ ~getters[c].prev_old
                    /\ getters[c].ec = "ok")
          /\ getters[c].pc = "waiting"
                => (lookup.running = 1
                    /\ ~(getters[c].prev_ok /\ ~getters[c].prev_old))
          /\ (getters[c].pc # "idle"
              /\ ~(getters[c].prev_ok /\ ~getters[c].prev_old))
                => (getters[c].pc = "waiting" \/ getters[c].waited)

\* Both callers wait for the one running job, and a caller is served a fresh
\* result without waiting.
C33_Witness ==
    /\ lookup.running = 1
    /\ getters[1].pc = "waiting"
    /\ getters[2].pc = "waiting"
    /\ getters[1].prev_ok /\ getters[1].prev_old

C33_WitnessServed ==
    \E c \in GetCallers :
        getters[c].pc = "done" /\ ~getters[c].waited /\ getters[c].value # {}

\* C34: a call that waited for a job that ended in failure returns an error.
C34_FailedJobGivesError ==
    \A c \in GetCallers :
        (getters[c].pc = "done" /\ getters[c].job_failed)
            => getters[c].ec # "ok"

(***************************************************************************)
(* MainlineDht::tracker_get_peers and MainlineDht::immutable_get           *)
(***************************************************************************)

\* C35: tracker_get_peers and immutable_get, completing without error, return
\* what the DHT nodes found, which is not empty.
C35_ReturnsWhatNodesFound ==
    (fan.pc = "returned" /\ fan.ec = "ok"
     /\ fan.op \in {"tracker_get_peers", "immutable_get"})
        => (fan.ret = fan.output /\ fan.ret # {})

(***************************************************************************)
(* HashList::load                                                          *)
(***************************************************************************)

\* C36: load terminates: whenever it is running it returns eventually, with
\* a verified hash list or with an error.
C36_LoadTerminates == (hl.pc # "done") ~> (hl.pc = "done")

(***************************************************************************)
(* Queries received before the routing table exists                        *)
(***************************************************************************)

\* C37: a query handled before bootstrap has created the routing table is
\* answered without a call through the missing routing table, whatever its
\* type.
C37_EarlyQueriesAvoidTable == ~inbound.null_deref

(***************************************************************************)
(* http_injection_merge                                                    *)
(***************************************************************************)

\* C38: after the merge a signature remains for every key id and algorithm
\* for which the head or the trailer held a signature.
C38_SignatureRemains ==
    \A s \in mg.rsh \cup {mg.rst[i] : i \in 1..Len(mg.rst)} :
        s.name = SigName
            => \E r \in mg.merged : r.name = SigName /\ SameKey(r, s)

(***************************************************************************)
(* The block chain of SigningReader, VerifyingReader and HashList          *)
(***************************************************************************)

\* C39: every block signature the SigningReader has put into a chunk header
\* is accepted by HashList::verify over the hashes of the blocks of the same
\* response up to the block it signs.
C39_SignatureAcceptedByHashList ==
    \A k \in 1..Len(srOut) :
        (srOut[k].kind = "chunk_hdr" /\ srOut[k].sig # NoSig)
            => LET i == srOut[k].sig.offset \div BlockSize
               IN HashListVerify(InjectionId, BlockSize,
                                 [j \in 1..(i + 1) |-> DataHash(SrBlock(j - 1))],
                                 srOut[k].sig, InjectorKey)

(***************************************************************************)
(* VerifyingReader: the data it holds unverified                           *)
(***************************************************************************)

\* C40: the reader never holds more than one block of unverified data, never
\* expects a chunk of more than one block, and a read of chunk data that
\* would overflow the block fails with bad_message.
C40_AtMostOneBlockUnverified ==
    /\ [](Len(vr.qbuf) <= BlockSize /\ vr.chunk_left <= BlockSize)
    /\ [][(/\ Len(vr'.body) > Len(vr.body)
           /\ Len(vr.qbuf) + Len(vr'.body) - Len(vr.body) > BlockSize)
              => vr'.ec = "bad_message"]_vars

\* Chunk data arrived that did not fit into the block being filled: the read
\* failed and the buffer still holds the part of the block received before.
C40_Witness ==
    /\ vr.ec = "bad_message"
    /\ vr.qbuf # <<>>
    /\ Len(vr.body) - vr.block_offset > BlockSize

====
